---------------------------- MODULE Spec2Model ----------------------------
(***************************************************************************)
(* Environmental Impact Prediction & Mitigation Scoring Engine.            *)
(*                                                                         *)
(* The Python code computes with floats; the model computes the same       *)
(* formulas exactly, on integers that carry a fixed decimal scale:         *)
(*   coordinates      hundredths of a degree        (1 = 0.01 degree)      *)
(*   area_km2         ten-thousandths of a km2      (area4)                *)
(*   unrounded values a numerator over the denominator named next to the   *)
(*                    operator that returns it                             *)
(*   round(x, n)      the integer x * 10^n, rounded half to even           *)
(* A value that is absent (no response yet, no budget) is None.            *)
(***************************************************************************)
EXTENDS Integers, Sequences, FiniteSets, TLC

VARIABLES
    request,    \* the call being served: operation inputs drawn by Init
    lake,       \* what delta_lake_manager.get_processed_data answers
    pc,         \* "idle" before the call, "done" after it
    response    \* what the call returned or raised

vars == <<request, lake, pc, response>>

None == "None"

(***************************************************************************)
(* Bounds of the model and constants of the program                        *)
(***************************************************************************)
MaxVertices == 4

MinHorizon == 1
MaxHorizon == 50

(***************************************************************************)
(* Python builtins                                                         *)
(***************************************************************************)
Abs(x) == IF x < 0 THEN -x ELSE x

Min(a, b) == IF a <= b THEN a ELSE b

Max(a, b) == IF a >= b THEN a ELSE b

\* round(n / d, 0) for d > 0: to the nearest integer, a tie to the even one
Round(n, d) ==
    LET q == n \div d
        r == n % d
    IN  IF r < d - r THEN q
        ELSE IF r > d - r THEN q + 1
        ELSE IF q % 2 = 0 THEN q ELSE q + 1

\* the keyword call of the function callee, whose signature names the parameters
\* params: a keyword the signature does not name is a TypeError
Call(callee, kwargs, params, result) ==
    IF kwargs \subseteq params
    THEN result
    ELSE [status |-> "raised", error |-> "TypeError", raised_by |-> callee]

\* rec.get(key, default)
Get(rec, key, default) ==
    IF key \in DOMAIN rec THEN rec[key] ELSE default

Raised(r) == r.status = "raised"

(***************************************************************************)
(* Inputs: polygons over a small set of vertices, in hundredths of a       *)
(* degree. (0,0),(1,0),(1,1),(0,1) is the 0.01 x 0.01 degree square; with  *)
(* (60,180) the triangles have areas between 36 and 149 km2. A polygon     *)
(* names no vertex twice.                                                  *)
(***************************************************************************)
Vertices == {<<0, 0>>, <<1, 0>>, <<1, 1>>, <<0, 1>>, <<60, 180>>}

IsInjective(s) == \A i, j \in DOMAIN s : s[i] = s[j] => i = j

Polygons ==
    UNION {{s \in [1..n -> Vertices] : IsInjective(s)} : n \in 0..MaxVertices}

Horizons == MinHorizon..MaxHorizon

UnitSquare == <<<<0, 0>>, <<1, 0>>, <<1, 1>>, <<0, 1>>>>

(***************************************************************************)
(* Geometry: the shoelace formula, shared by the predictors                *)
(***************************************************************************)
RECURSIVE ShoelaceSum(_, _)
ShoelaceSum(coordinates, i) ==
    IF i > Len(coordinates) THEN 0
    ELSE LET j == (i % Len(coordinates)) + 1
         IN  coordinates[i][1] * coordinates[j][2]
             - coordinates[j][1] * coordinates[i][2]
             + ShoelaceSum(coordinates, i + 1)

\* abs(area) / 2.0 * 111.32 * 111.32 with the coordinates in hundredths of a
\* degree is |sum| * 0.61960712 km2; in ten-thousandths of a km2, cut off
DegreesToArea4(twice) == twice * 6196 + (twice * 712) \div 10000

\* the conversion applied to the signed shoelace sum, abs() left out
Heat_calculate_area_signed(coordinates) ==
    LET twice == ShoelaceSum(coordinates, 1)
    IN  IF twice >= 0 THEN DegreesToArea4(twice) ELSE -DegreesToArea4(-twice)

Heat_calculate_area(coordinates) ==
    DegreesToArea4(Abs(ShoelaceSum(coordinates, 1)))

Water_calculate_area(coordinates) ==
    DegreesToArea4(Abs(ShoelaceSum(coordinates, 1)))

Air_calculate_area(coordinates) ==
    DegreesToArea4(Abs(ShoelaceSum(coordinates, 1)))


(***************************************************************************)
(* HeatIslandPredictor                                                     *)
(***************************************************************************)
\* the temperature increase with the time factor inverted (10.0 / time_horizon)
Heat_predict_temperature_increase_inverted(coordinates, area4, time_horizon) ==
    LET base_increase == 1
        area_factor == Min(area4, 200000)
    IN  (base_increase * area_factor * 100) \div time_horizon

\* base_increase * min(area_km2 / 10.0, 2.0) * (time_horizon / 10.0),
\* in millionths of a degree Celsius
Heat_predict_temperature_increase(coordinates, area4, time_horizon) ==
    LET base_increase == 1
        area_factor == Min(area4, 200000)       \* over 10^5
    IN  base_increase * area_factor * time_horizon

\* the denominator of the heat risk score
HeatRiskDen == 50000000

\* the heat risk score with the area normalised over 10 km2 instead of 100
Heat_calculate_heat_risk_score_area10(temperature_increase, area4) ==
    LET temp_score == Min(temperature_increase, 5000000)
        area_score == Min(10 * area4, 1000000)
    IN  7 * temp_score + 15 * area_score

\* 0.7 * min(temperature_increase / 5.0, 1.0) + 0.3 * min(area_km2 / 100.0, 1.0),
\* over HeatRiskDen
Heat_calculate_heat_risk_score(temperature_increase, area4) ==
    LET temp_score == Min(temperature_increase, 5000000)    \* over 5 * 10^6
        area_score == Min(area4, 1000000)                   \* over 10^6
    IN  7 * temp_score + 15 * area_score

\* the score is num / den
Heat_determine_risk_level(num, den) ==
    IF 5 * num >= 4 * den THEN "Very High"
    ELSE IF 5 * num >= 3 * den THEN "High"
    ELSE IF 5 * num >= 2 * den THEN "Medium"
    ELSE IF 5 * num >= 1 * den THEN "Low"
    ELSE "Very Low"

\* int(area_km2 * 1000)
Heat_estimate_population_at_risk(area4) == area4 \div 10

Heat_analyze_heat_island_effect(coordinates, time_horizon) ==
    LET area4 == Heat_calculate_area(coordinates)
        current_temperature == 25000000                     \* millionths
        temperature_increase ==
            Heat_predict_temperature_increase(coordinates, area4, time_horizon)
        predicted_temperature == current_temperature + temperature_increase
        heat_risk_score ==
            Heat_calculate_heat_risk_score(temperature_increase, area4)
        risk_level == Heat_determine_risk_level(heat_risk_score, HeatRiskDen)
    IN  [status |-> "ok",
         current_temperature |-> Round(current_temperature, 10000),
         predicted_temperature |-> Round(predicted_temperature, 10000),
         temperature_increase |-> Round(temperature_increase, 10000),
         heat_risk_score |-> Round(heat_risk_score, HeatRiskDen \div 1000),
         heat_risk_level |-> risk_level,
         affected_area_km2 |-> Round(area4, 100),
         population_at_risk |-> Heat_estimate_population_at_risk(area4),
         time_horizon |-> time_horizon]

(***************************************************************************)
(* WaterAbsorptionPredictor                                                *)
(***************************************************************************)
\* base_change * min(area_km2 / 10.0, 2.0) * (time_horizon / 10.0) with
\* base_change = -0.1, in ten-millionths
Water_predict_absorption_change(coordinates, area4, time_horizon) ==
    LET base_change == -1                       \* tenths
        area_factor == Min(area4, 200000)       \* over 10^5
    IN  base_change * area_factor * time_horizon

\* the denominator of the flood risk score
FloodRiskDen == 100000000

\* the flood risk score with the area term left uncapped
Water_calculate_flood_risk_score_uncapped(absorption_rate, area4) ==
    LET absorption_score == 10000000 - absorption_rate
        area_score == area4
    IN  8 * absorption_score + 20 * area_score

\* 0.8 * (1 - absorption_rate) + 0.2 * min(area_km2 / 100.0, 1.0), over
\* FloodRiskDen; absorption_rate in ten-millionths
Water_calculate_flood_risk_score(absorption_rate, area4) ==
    LET absorption_score == 10000000 - absorption_rate      \* over 10^7
        area_score == Min(area4, 1000000)                   \* over 10^6
    IN  8 * absorption_score + 20 * area_score

Water_determine_risk_level(num, den) ==
    IF 5 * num >= 4 * den THEN "Very High"
    ELSE IF 5 * num >= 3 * den THEN "High"
    ELSE IF 5 * num >= 2 * den THEN "Medium"
    ELSE IF 5 * num >= 1 * den THEN "Low"
    ELSE "Very Low"

\* min(absorption_rate * 1.2, 1.0), over 10^8
Water_calculate_drainage_efficiency(absorption_rate) ==
    Min(absorption_rate * 12, 100000000)

\* min(50.0 + min(area_km2 / 10.0, 1.0) * 20.0, 90.0), in percent over 10^4
Water_estimate_impervious_surface(coordinates, area4) ==
    LET base_percentage == 500000
        area_factor == Min(area4, 100000)       \* over 10^5
    IN  Min(base_percentage + (area_factor * 20) \div 10, 900000)

Water_analyze_water_absorption(coordinates, time_horizon) ==
    LET area4 == Water_calculate_area(coordinates)
        current_absorption_rate == 6000000                  \* ten-millionths
        absorption_change ==
            Water_predict_absorption_change(coordinates, area4, time_horizon)
        predicted_absorption_rate ==
            Max(0, current_absorption_rate + absorption_change)
        flood_risk_score ==
            Water_calculate_flood_risk_score(predicted_absorption_rate, area4)
        risk_level == Water_determine_risk_level(flood_risk_score, FloodRiskDen)
    IN  [status |-> "ok",
         current_absorption_rate |-> Round(current_absorption_rate, 10000),
         predicted_absorption_rate |-> Round(predicted_absorption_rate, 10000),
         absorption_rate_change |-> Round(absorption_change, 10000),
         flood_risk_score |-> Round(flood_risk_score, FloodRiskDen \div 1000),
         flood_risk_level |-> risk_level,
         drainage_efficiency |->
            Round(Water_calculate_drainage_efficiency(predicted_absorption_rate),
                  100000),
         impervious_surface_percentage |->
            Round(Water_estimate_impervious_surface(coordinates, area4), 1000),
         affected_area_km2 |-> Round(area4, 100),
         time_horizon |-> time_horizon]

(***************************************************************************)
(* AirQualityPredictor                                                     *)
(***************************************************************************)
\* base_change * min(area_km2 / 10.0, 2.0) * (time_horizon / 10.0) with
\* base_change = 10.0, in hundred-thousandths of an AQI point
Air_predict_aqi_change(coordinates, area4, time_horizon) ==
    LET base_change == 1                        \* tens
        area_factor == Min(area4, 200000)       \* over 10^5
    IN  base_change * area_factor * time_horizon

\* the denominator of the air quality risk score
AirRiskDen == 300000000

\* the AQI bands, aqi in hundred-thousandths; the score over AirRiskDen
Air_calculate_air_quality_risk_score(aqi) ==
    IF aqi <= 5000000 THEN 0
    ELSE IF aqi <= 10000000 THEN 12 * (aqi - 5000000)
    ELSE IF aqi <= 15000000 THEN 60000000 + 18 * (aqi - 10000000)
    ELSE IF aqi <= 20000000 THEN 150000000 + 18 * (aqi - 15000000)
    ELSE 240000000 + 2 * Min(aqi - 20000000, 30000000)

\* the air risk level with the High threshold compared strictly
Air_determine_risk_level_strict(num, den) ==
    IF 5 * num >= 4 * den THEN "Very High"
    ELSE IF 5 * num > 3 * den THEN "High"
    ELSE IF 5 * num >= 2 * den THEN "Medium"
    ELSE IF 5 * num >= 1 * den THEN "Low"
    ELSE "Very Low"

Air_determine_risk_level(num, den) ==
    IF 5 * num >= 4 * den THEN "Very High"
    ELSE IF 5 * num >= 3 * den THEN "High"
    ELSE IF 5 * num >= 2 * den THEN "Medium"
    ELSE IF 5 * num >= 1 * den THEN "Low"
    ELSE "Very Low"

\* int(int(area_km2 * 1000) * risk_factor)
Air_estimate_population_at_risk(area4, aqi) ==
    LET risk_factor ==                          \* tenths
            IF aqi <= 5000000 THEN 0
            ELSE IF aqi <= 10000000 THEN 1
            ELSE IF aqi <= 15000000 THEN 3
            ELSE IF aqi <= 20000000 THEN 6
            ELSE 10
        total_population == area4 \div 10
    IN  (total_population * risk_factor) \div 10

Air_analyze_air_quality_impact(coordinates, time_horizon) ==
    LET area4 == Air_calculate_area(coordinates)
        current_air_quality_index == 7500000        \* hundred-thousandths
        aqi_change == Air_predict_aqi_change(coordinates, area4, time_horizon)
        predicted_aqi ==
            Max(0, Min(50000000, current_air_quality_index + aqi_change))
        air_quality_risk_score ==
            Air_calculate_air_quality_risk_score(predicted_aqi)
        risk_level == Air_determine_risk_level(air_quality_risk_score, AirRiskDen)
    IN  [status |-> "ok",
         current_air_quality_index |-> Round(current_air_quality_index, 10000),
         predicted_air_quality_index |-> Round(predicted_aqi, 10000),
         aqi_change |-> Round(aqi_change, 10000),
         air_quality_risk_score |->
            Round(air_quality_risk_score, AirRiskDen \div 1000),
         air_quality_risk_level |-> risk_level,
         affected_area_km2 |-> Round(area4, 100),
         population_at_risk |-> Air_estimate_population_at_risk(area4, predicted_aqi),
         time_horizon |-> time_horizon]


(***************************************************************************)
(* delta_lake_manager: the rows it holds for a data type, as the           *)
(* environment answers them                                                *)
(***************************************************************************)
DataTypes == {"satellite_processed", "soil_processed", "climate_processed"}

\* a row of satellite_processed; indicator values in hundredths
SampleSatelliteRow == [data |-> [ndvi |-> 50, vegetation_density |-> 40, albedo |-> 30]]

\* the empty dictionary
EmptyDict == [k \in {} |-> None]

\* Databricks not configured, a failing query, or a lake holding one row of
\* satellite_processed
LakeStates ==
    {[mode |-> "disabled", tables |-> EmptyDict],
     [mode |-> "error", tables |-> EmptyDict],
     [mode |-> "rows", tables |-> [satellite_processed |-> <<SampleSatelliteRow>>]]}

\* get_processed_data(data_type, coordinates): [] when Databricks is not
\* configured, an exception when the query fails, else the rows
Lake_get_processed_data(lk, data_type) ==
    IF lk.mode = "disabled" THEN [status |-> "ok", rows |-> <<>>]
    ELSE IF lk.mode = "error" THEN [status |-> "raised", error |-> "Exception",
                                    raised_by |-> "get_processed_data"]
    ELSE [status |-> "ok", rows |-> Get(lk.tables, data_type, <<>>)]

(***************************************************************************)
(* EnvironmentalPredictor                                                  *)
(***************************************************************************)
\* the parameters the predictors' analyze operations accept
Heat_analyze_params == {"coordinates", "time_horizon"}
Water_analyze_params == {"coordinates", "time_horizon"}
Air_analyze_params == {"coordinates", "time_horizon"}

\* a data type whose query raises or answers no row is left out
Env_get_alphaearth_data(coordinates, lk) ==
    [t \in {d \in DataTypes :
              LET got == Lake_get_processed_data(lk, d)
              IN  ~Raised(got) /\ Len(got.rows) > 0}
       |-> Lake_get_processed_data(lk, t).rows[1]]

\* the overall score with the heat and water weights exchanged
Env_calculate_overall_risk_score_swapped(heat_island_results, water_absorption_results, air_quality_results) ==
    LET heat_risk == Get(heat_island_results, "heat_risk_score", 500)
        water_risk == Get(water_absorption_results, "flood_risk_score", 500)
        air_risk == Get(air_quality_results, "air_quality_risk_score", 500)
        overall_risk == 3 * heat_risk + 4 * water_risk + 3 * air_risk
    IN  Round(overall_risk, 10)

\* round(0.4 * heat + 0.3 * water + 0.3 * air, 3); the scores in thousandths,
\* a missing score 0.5
Env_calculate_overall_risk_score(heat_island_results, water_absorption_results, air_quality_results) ==
    LET heat_risk == Get(heat_island_results, "heat_risk_score", 500)
        water_risk == Get(water_absorption_results, "flood_risk_score", 500)
        air_risk == Get(air_quality_results, "air_quality_risk_score", 500)
        overall_risk == 4 * heat_risk + 3 * water_risk + 3 * air_risk   \* over 10^4
    IN  Round(overall_risk, 10)

Env_analyze_heat_island_effect(coordinates, time_horizon) ==
    Call("analyze_heat_island_effect", {"coordinates", "time_horizon"},
         Heat_analyze_params,
         Heat_analyze_heat_island_effect(coordinates, time_horizon))

Env_analyze_water_absorption(coordinates, time_horizon) ==
    Call("analyze_water_absorption", {"coordinates", "time_horizon"},
         Water_analyze_params,
         Water_analyze_water_absorption(coordinates, time_horizon))

Env_analyze_air_quality_impact(coordinates, time_horizon) ==
    Call("analyze_air_quality_impact", {"coordinates", "time_horizon"},
         Air_analyze_params,
         Air_analyze_air_quality_impact(coordinates, time_horizon))

\* the comprehensive analysis with a failed domain replaced by an empty result
Env_comprehensive_analysis_degraded(coordinates, time_horizon, lk) ==
    LET kwargs == {"coordinates", "time_horizon", "alphaearth_data"}
        Degrade(r) == IF Raised(r) THEN [status |-> "placeholder"] ELSE r
        heat_island_results ==
            Degrade(Call("analyze_heat_island_effect", kwargs, Heat_analyze_params,
                 Heat_analyze_heat_island_effect(coordinates, time_horizon)))
        water_absorption_results ==
            Degrade(Call("analyze_water_absorption", kwargs, Water_analyze_params,
                 Water_analyze_water_absorption(coordinates, time_horizon)))
        air_quality_results ==
            Degrade(Call("analyze_air_quality_impact", kwargs, Air_analyze_params,
                 Air_analyze_air_quality_impact(coordinates, time_horizon)))
    IN  [status |-> "ok",
         heat_island |-> heat_island_results,
         water_absorption |-> water_absorption_results,
         air_quality |-> air_quality_results,
         overall_risk_score |->
             Env_calculate_overall_risk_score(heat_island_results,
                 water_absorption_results, air_quality_results),
         time_horizon |-> time_horizon]

\* the three analyses in turn, each called with alphaearth_data as a keyword;
\* an exception of any step is logged and raised again
Env_comprehensive_analysis(coordinates, time_horizon, lk) ==
    LET alphaearth_data == Env_get_alphaearth_data(coordinates, lk)
        kwargs == {"coordinates", "time_horizon", "alphaearth_data"}
        heat_island_results ==
            Call("analyze_heat_island_effect", kwargs, Heat_analyze_params,
                 Heat_analyze_heat_island_effect(coordinates, time_horizon))
        water_absorption_results ==
            Call("analyze_water_absorption", kwargs, Water_analyze_params,
                 Water_analyze_water_absorption(coordinates, time_horizon))
        air_quality_results ==
            Call("analyze_air_quality_impact", kwargs, Air_analyze_params,
                 Air_analyze_air_quality_impact(coordinates, time_horizon))
    IN  IF Raised(heat_island_results) THEN heat_island_results
        ELSE IF Raised(water_absorption_results) THEN water_absorption_results
        ELSE IF Raised(air_quality_results) THEN air_quality_results
        ELSE [status |-> "ok",
              heat_island |-> heat_island_results,
              water_absorption |-> water_absorption_results,
              air_quality |-> air_quality_results,
              overall_risk_score |->
                  Env_calculate_overall_risk_score(heat_island_results,
                      water_absorption_results, air_quality_results),
              time_horizon |-> time_horizon]

(***************************************************************************)
(* EnvironmentalPredictor.generate_recommendations                         *)
(***************************************************************************)
Recommendation(type, title, impact, cost, priority, implementation_time) ==
    [type |-> type, title |-> title, impact |-> impact, cost |-> cost,
     priority |-> priority, implementation_time |-> implementation_time]

\* the heat recommendations with the upper threshold taken as >= 0.7
Env_generate_heat_island_recommendations_inclusive(heat_island_results) ==
    LET heat_risk == Get(heat_island_results, "heat_risk_score", 500)
    IN  IF heat_risk >= 700
        THEN <<Recommendation("green_infrastructure", "Implement Green Roofs",
                              "High", "Medium", 1, "6-12 months"),
               Recommendation("vegetation", "Increase Tree Canopy",
                              "High", "Low", 1, "1-3 years")>>
        ELSE IF heat_risk > 400
        THEN <<Recommendation("materials", "Use Reflective Materials",
                              "Medium", "Medium", 2, "3-6 months")>>
        ELSE <<>>

\* heat_risk in thousandths, 0.5 when the result has no score
Env_generate_heat_island_recommendations(heat_island_results) ==
    LET heat_risk == Get(heat_island_results, "heat_risk_score", 500)
    IN  IF heat_risk > 700
        THEN <<Recommendation("green_infrastructure", "Implement Green Roofs",
                              "High", "Medium", 1, "6-12 months"),
               Recommendation("vegetation", "Increase Tree Canopy",
                              "High", "Low", 1, "1-3 years")>>
        ELSE IF heat_risk > 400
        THEN <<Recommendation("materials", "Use Reflective Materials",
                              "Medium", "Medium", 2, "3-6 months")>>
        ELSE <<>>

Env_generate_water_absorption_recommendations(water_absorption_results) ==
    LET flood_risk == Get(water_absorption_results, "flood_risk_score", 500)
    IN  IF flood_risk > 700
        THEN <<Recommendation("infrastructure", "Install Permeable Pavement",
                              "High", "High", 1, "6-18 months"),
               Recommendation("infrastructure", "Create Rain Gardens",
                              "High", "Medium", 1, "3-6 months")>>
        ELSE IF flood_risk > 400
        THEN <<Recommendation("infrastructure", "Improve Drainage Systems",
                              "Medium", "Medium", 2, "6-12 months")>>
        ELSE <<>>

Env_generate_air_quality_recommendations(air_quality_results) ==
    LET air_risk == Get(air_quality_results, "air_quality_risk_score", 500)
    IN  IF air_risk > 700
        THEN <<Recommendation("transportation", "Promote Electric Vehicles",
                              "High", "High", 1, "12-24 months"),
               Recommendation("vegetation", "Plant Air-Purifying Vegetation",
                              "Medium", "Low", 1, "1-3 years")>>
        ELSE IF air_risk > 400
        THEN <<Recommendation("transportation", "Improve Public Transit",
                              "Medium", "High", 2, "12-36 months")>>
        ELSE <<>>

\* x placed behind every record of the sorted list whose priority is not lower
RECURSIVE InsertByPriority(_, _)
InsertByPriority(sorted, x) ==
    IF sorted = <<>> THEN <<x>>
    ELSE IF Get(Head(sorted), "priority", 0) >= Get(x, "priority", 0)
         THEN <<Head(sorted)>> \o InsertByPriority(Tail(sorted), x)
         ELSE <<x>> \o sorted

RECURSIVE SortInto(_, _)
SortInto(sorted, rest) ==
    IF rest = <<>> THEN sorted
    ELSE SortInto(InsertByPriority(sorted, Head(rest)), Tail(rest))

\* the sort without reverse=True: ascending by priority
SortByPriorityAscending(recommendations) ==
    LET sorted == SortInto(<<>>, recommendations)
    IN  [i \in 1..Len(sorted) |-> sorted[Len(sorted) + 1 - i]]

\* recommendations.sort(key=lambda x: x.get("priority", 0), reverse=True):
\* descending by priority, records of equal priority keep their order
SortByPriorityReverse(recommendations) == SortInto(<<>>, recommendations)

Env_generate_recommendations(analysis_results, analysis_type) ==
    LET heat_recommendations ==
            IF analysis_type \in {"heat_island", "comprehensive"}
            THEN Env_generate_heat_island_recommendations(
                     Get(analysis_results, "heat_island", EmptyDict))
            ELSE <<>>
        water_recommendations ==
            IF analysis_type \in {"water_absorption", "comprehensive"}
            THEN Env_generate_water_absorption_recommendations(
                     Get(analysis_results, "water_absorption", EmptyDict))
            ELSE <<>>
        air_recommendations ==
            IF analysis_type \in {"air_quality", "comprehensive"}
            THEN Env_generate_air_quality_recommendations(
                     Get(analysis_results, "air_quality", EmptyDict))
            ELSE <<>>
    IN  SortByPriorityReverse(heat_recommendations \o water_recommendations
                              \o air_recommendations)

(***************************************************************************)
(* SpecDomain: one analysis call on a polygon and a time horizon           *)
(***************************************************************************)
InitDomain ==
    /\ request \in [coordinates : Polygons, time_horizon : Horizons]
    /\ lake = None
    /\ pc = "idle"
    /\ response = None

AnalyzeHeatIslandEffect ==
    /\ pc = "idle"
    /\ response' = [op |-> "analyze_heat_island_effect",
                    out |-> Env_analyze_heat_island_effect(request.coordinates,
                                                          request.time_horizon)]
    /\ pc' = "done"
    /\ UNCHANGED <<request, lake>>

AnalyzeWaterAbsorption ==
    /\ pc = "idle"
    /\ response' = [op |-> "analyze_water_absorption",
                    out |-> Env_analyze_water_absorption(request.coordinates,
                                                        request.time_horizon)]
    /\ pc' = "done"
    /\ UNCHANGED <<request, lake>>

AnalyzeAirQualityImpact ==
    /\ pc = "idle"
    /\ response' = [op |-> "analyze_air_quality_impact",
                    out |-> Env_analyze_air_quality_impact(request.coordinates,
                                                          request.time_horizon)]
    /\ pc' = "done"
    /\ UNCHANGED <<request, lake>>

ComprehensiveAnalysis ==
    /\ pc = "idle"
    /\ \E lk \in LakeStates :
          /\ lake' = lk
          /\ response' = [op |-> "comprehensive_analysis",
                          out |-> Env_comprehensive_analysis(request.coordinates,
                                      request.time_horizon, lk)]
    /\ pc' = "done"
    /\ UNCHANGED request

NextDomain ==
    \/ AnalyzeHeatIslandEffect
    \/ AnalyzeWaterAbsorption
    \/ AnalyzeAirQualityImpact
    \/ ComprehensiveAnalysis

SpecDomain == InitDomain /\ [][NextDomain]_vars


(***************************************************************************)
(* Claims on the domain analyses (SpecDomain)                              *)
(***************************************************************************)
Returned(op) == pc = "done" /\ response.op = op

\* validate_coordinates: at least 3 points, each within the lon/lat range
ValidPolygon(coordinates) ==
    /\ Len(coordinates) >= 3
    /\ \A i \in DOMAIN coordinates :
          /\ -18000 <= coordinates[i][1] /\ coordinates[i][1] <= 18000
          /\ -9000 <= coordinates[i][2] /\ coordinates[i][2] <= 9000

\* C1: for every polygon and every time horizon in 1..50 each of the three
\* analyze operations returns, and the risk score it returns is in [0,1]
C1_RiskScoreInUnitInterval ==
    /\ Returned("analyze_heat_island_effect") =>
          /\ response.out.status = "ok"
          /\ 0 <= response.out.heat_risk_score
          /\ response.out.heat_risk_score <= 1000
    /\ Returned("analyze_water_absorption") =>
          /\ response.out.status = "ok"
          /\ 0 <= response.out.flood_risk_score
          /\ response.out.flood_risk_score <= 1000
    /\ Returned("analyze_air_quality_impact") =>
          /\ response.out.status = "ok"
          /\ 0 <= response.out.air_quality_risk_score
          /\ response.out.air_quality_risk_score <= 1000

\* C1 witness: a flood analysis of an area above 100 km2 whose score is 1
C1_Witness ==
    /\ Returned("analyze_water_absorption")
    /\ response.out.affected_area_km2 > 10000
    /\ response.out.flood_risk_score = 1000

\* C3: for every valid polygon and horizon, comprehensive_analysis returns a
\* result with the three domain results and overall_risk_score, whether or
\* not indicator data is available
C3_ComprehensiveAnalysisReturns ==
    (Returned("comprehensive_analysis") /\ ValidPolygon(request.coordinates)) =>
        /\ response.out.status = "ok"
        /\ {"heat_island", "water_absorption", "air_quality",
            "overall_risk_score"} \subseteq DOMAIN response.out

\* the outcome of each predictor call comprehensive_analysis makes
C4_PredictorCalls ==
    LET kwargs == {"coordinates", "time_horizon", "alphaearth_data"}
    IN  [heat_island |->
            Call("analyze_heat_island_effect", kwargs, Heat_analyze_params,
                 Heat_analyze_heat_island_effect(request.coordinates,
                                                 request.time_horizon)),
         water_absorption |->
            Call("analyze_water_absorption", kwargs, Water_analyze_params,
                 Water_analyze_water_absorption(request.coordinates,
                                                request.time_horizon)),
         air_quality |->
            Call("analyze_air_quality_impact", kwargs, Air_analyze_params,
                 Air_analyze_air_quality_impact(request.coordinates,
                                                request.time_horizon))]

\* C4: comprehensive_analysis ends either raised or with all three domain
\* results and overall_risk_score; when a predictor call fails the outcome is
\* that failure, with no score and no placeholder domain
C4_CompleteOrRaised ==
    Returned("comprehensive_analysis") =>
        LET calls == C4_PredictorCalls
            failed == {d \in DOMAIN calls : Raised(calls[d])}
        IN  IF failed # {}
            THEN /\ Raised(response.out)
                 /\ \E d \in failed : response.out = calls[d]
                 /\ "overall_risk_score" \notin DOMAIN response.out
            ELSE /\ response.out.status = "ok"
                 /\ \A d \in DOMAIN calls : response.out[d] = calls[d]
                 /\ "overall_risk_score" \in DOMAIN response.out

\* C4 witness: a predictor call failed and the failure reached the caller
C4_Witness ==
    /\ Returned("comprehensive_analysis")
    /\ lake.mode = "rows"
    /\ Raised(response.out)
    /\ response.out.raised_by = "analyze_heat_island_effect"

\* C6: for a fixed polygon a longer horizon never lowers the magnitude of the
\* predicted change (heat, water, air) nor the heat and flood risk scores, and
\* for the 0.01 x 0.01 degree square the heat and flood risk scores at horizon
\* 50 are strictly greater than at horizon 10
C6_MonotoneInHorizon ==
    /\ Returned("analyze_heat_island_effect") =>
          /\ \A h2 \in Horizons : h2 >= request.time_horizon =>
                LET later == Heat_analyze_heat_island_effect(request.coordinates, h2)
                IN  /\ later.temperature_increase >= response.out.temperature_increase
                    /\ later.heat_risk_score >= response.out.heat_risk_score
          /\ (request.coordinates = UnitSquare /\ request.time_horizon = 10) =>
                Heat_analyze_heat_island_effect(UnitSquare, 50).heat_risk_score
                    > response.out.heat_risk_score
    /\ Returned("analyze_water_absorption") =>
          /\ \A h2 \in Horizons : h2 >= request.time_horizon =>
                LET later == Water_analyze_water_absorption(request.coordinates, h2)
                IN  /\ Abs(later.absorption_rate_change)
                        >= Abs(response.out.absorption_rate_change)
                    /\ later.flood_risk_score >= response.out.flood_risk_score
          /\ (request.coordinates = UnitSquare /\ request.time_horizon = 10) =>
                Water_analyze_water_absorption(UnitSquare, 50).flood_risk_score
                    > response.out.flood_risk_score
    /\ Returned("analyze_air_quality_impact") =>
          \A h2 \in Horizons : h2 >= request.time_horizon =>
              Abs(Air_analyze_air_quality_impact(request.coordinates, h2).aqi_change)
                  >= Abs(response.out.aqi_change)

\* C6 witness: the heat analysis of the 0.01 x 0.01 degree square at horizon 10
C6_Witness ==
    /\ Returned("analyze_heat_island_effect")
    /\ request.coordinates = UnitSquare
    /\ request.time_horizon = 10
    /\ response.out.heat_risk_score = 21
    /\ response.out.affected_area_km2 = 124


(***************************************************************************)
(* SpecAggregate: the aggregator's operations on three domain results      *)
(* whose risk scores (thousandths) are drawn around the thresholds         *)
(***************************************************************************)
ScoreSamples == {0, 199, 200, 399, 400, 401, 599, 600, 700, 701, 799, 800, 1000}

AnalysisTypes == {"heat_island", "water_absorption", "air_quality", "comprehensive"}

Domains == {"heat_island", "water_absorption", "air_quality"}

\* the results handed to the aggregator: the domains in present, each with
\* its risk score
AnalysisResults(present, h, w, a) ==
    [d \in present |->
        CASE d = "heat_island" -> [heat_risk_score |-> h]
          [] d = "water_absorption" -> [flood_risk_score |-> w]
          [] d = "air_quality" -> [air_quality_risk_score |-> a]]

InitAggregate ==
    /\ \E present \in SUBSET Domains, h, w, a \in ScoreSamples, t \in AnalysisTypes :
          request = [analysis_results |-> AnalysisResults(present, h, w, a),
                     analysis_type |-> t]
    /\ lake = None
    /\ pc = "idle"
    /\ response = None

AllDomainsPresent == DOMAIN request.analysis_results = Domains

CalculateOverallRiskScore ==
    /\ pc = "idle"
    /\ AllDomainsPresent
    /\ response' = [op |-> "calculate_overall_risk_score",
                    out |-> Env_calculate_overall_risk_score(
                                request.analysis_results.heat_island,
                                request.analysis_results.water_absorption,
                                request.analysis_results.air_quality)]
    /\ pc' = "done"
    /\ UNCHANGED <<request, lake>>

DetermineRiskLevel ==
    /\ pc = "idle"
    /\ AllDomainsPresent
    /\ response' = [op |-> "determine_risk_level",
                    out |-> [heat_island |-> Heat_determine_risk_level(
                                 request.analysis_results.heat_island.heat_risk_score,
                                 1000),
                             water_absorption |-> Water_determine_risk_level(
                                 request.analysis_results.water_absorption.flood_risk_score,
                                 1000),
                             air_quality |-> Air_determine_risk_level(
                                 request.analysis_results.air_quality.air_quality_risk_score,
                                 1000)]]
    /\ pc' = "done"
    /\ UNCHANGED <<request, lake>>

GenerateRecommendations ==
    /\ pc = "idle"
    /\ response' = [op |-> "generate_recommendations",
                    out |-> Env_generate_recommendations(request.analysis_results,
                                                         request.analysis_type)]
    /\ pc' = "done"
    /\ UNCHANGED <<request, lake>>

NextAggregate ==
    \/ CalculateOverallRiskScore
    \/ DetermineRiskLevel
    \/ GenerateRecommendations

SpecAggregate == InitAggregate /\ [][NextAggregate]_vars

(***************************************************************************)
(* Claims on the aggregator (SpecAggregate)                                *)
(***************************************************************************)
HeatScore == request.analysis_results.heat_island.heat_risk_score
WaterScore == request.analysis_results.water_absorption.flood_risk_score
AirScore == request.analysis_results.air_quality.air_quality_risk_score

\* C2: for domain scores h, w, a in [0,1] the overall score is
\* 0.4*h + 0.3*w + 0.3*a up to the rounding to 3 decimals, and is in [0,1]
C2_OverallIsWeightedSum ==
    Returned("calculate_overall_risk_score") =>
        /\ Abs(10 * response.out - (4 * HeatScore + 3 * WaterScore + 3 * AirScore)) <= 5
        /\ 0 <= response.out
        /\ response.out <= 1000

\* C2 witness: heat 1.0 alone gives 0.4
C2_Witness ==
    /\ Returned("calculate_overall_risk_score")
    /\ HeatScore = 1000 /\ WaterScore = 0 /\ AirScore = 0
    /\ response.out = 400

\* the level the thresholds 0.8 / 0.6 / 0.4 / 0.2 give a score in thousandths
C5_Level(score) ==
    IF score >= 800 THEN "Very High"
    ELSE IF score >= 600 THEN "High"
    ELSE IF score >= 400 THEN "Medium"
    ELSE IF score >= 200 THEN "Low"
    ELSE "Very Low"

C5_Rank(level) ==
    CASE level = "Very Low" -> 0
      [] level = "Low" -> 1
      [] level = "Medium" -> 2
      [] level = "High" -> 3
      [] level = "Very High" -> 4

\* C5: the heat, water and air risk-level functions are the same function of
\* the score, the one of the thresholds 0.8 / 0.6 / 0.4 / 0.2, and the level
\* never falls as the score rises
C5_RiskLevelBuckets ==
    Returned("determine_risk_level") =>
        /\ response.out.heat_island = C5_Level(HeatScore)
        /\ response.out.water_absorption = C5_Level(WaterScore)
        /\ response.out.air_quality = C5_Level(AirScore)
        /\ HeatScore <= WaterScore =>
              C5_Rank(response.out.heat_island) <= C5_Rank(response.out.water_absorption)
        /\ WaterScore <= AirScore =>
              C5_Rank(response.out.water_absorption) <= C5_Rank(response.out.air_quality)
        /\ AirScore <= HeatScore =>
              C5_Rank(response.out.air_quality) <= C5_Rank(response.out.heat_island)
        /\ HeatScore = WaterScore => response.out.heat_island = response.out.water_absorption
        /\ WaterScore = AirScore => response.out.water_absorption = response.out.air_quality

\* C5 witness: scores on either side of two thresholds
C5_Witness ==
    /\ Returned("determine_risk_level")
    /\ HeatScore = 799 /\ response.out.heat_island = "High"
    /\ WaterScore = 800 /\ response.out.water_absorption = "Very High"
    /\ AirScore = 600 /\ response.out.air_quality = "High"

C8_Titles ==
    [heat_island |-> {"Implement Green Roofs", "Increase Tree Canopy",
                      "Use Reflective Materials"},
     water_absorption |-> {"Install Permeable Pavement", "Create Rain Gardens",
                           "Improve Drainage Systems"},
     air_quality |-> {"Promote Electric Vehicles", "Plant Air-Purifying Vegetation",
                      "Improve Public Transit"}]

C8_Score(d) ==
    CASE d = "heat_island" -> HeatScore
      [] d = "water_absorption" -> WaterScore
      [] d = "air_quality" -> AirScore

\* the positions of the records of domain d in the returned list
C8_Records(d) == {i \in DOMAIN response.out : response.out[i].title \in C8_Titles[d]}

C8_Expected(score) == IF score > 700 THEN 2 ELSE IF score > 400 THEN 1 ELSE 0

\* C8: for a comprehensive result each domain gets exactly two priority-1
\* (high risk) records when its score is > 0.7, exactly one priority-2 (medium)
\* record when the score is > 0.4 and <= 0.7, none when it is <= 0.4; the
\* list holds these records and no other
C8_RecommendationCounts ==
    (Returned("generate_recommendations") /\ request.analysis_type = "comprehensive"
        /\ AllDomainsPresent) =>
        /\ \A d \in DOMAIN C8_Titles :
              /\ Cardinality(C8_Records(d)) = C8_Expected(C8_Score(d))
              /\ \A i \in C8_Records(d) :
                    response.out[i].priority = IF C8_Score(d) > 700 THEN 1 ELSE 2
        /\ Len(response.out) = C8_Expected(HeatScore) + C8_Expected(WaterScore)
                               + C8_Expected(AirScore)

\* C8 witness: heat just above 0.7, water at 0.7, air at 0.4
C8_Witness ==
    /\ Returned("generate_recommendations")
    /\ request.analysis_type = "comprehensive"
    /\ AllDomainsPresent
    /\ HeatScore = 701 /\ WaterScore = 700 /\ AirScore = 400
    /\ Len(response.out) = 3

\* C9: the returned list is sorted descending by the priority field
C9_SortedDescending ==
    Returned("generate_recommendations") =>
        \A i \in 1..(Len(response.out) - 1) :
            response.out[i].priority >= response.out[i + 1].priority

\* C9 witness: the medium water record was moved ahead of the two heat records
C9_Witness ==
    /\ Returned("generate_recommendations")
    /\ Len(response.out) = 3
    /\ response.out[1].title = "Improve Drainage Systems"
    /\ response.out[1].priority = 2
    /\ response.out[2].title = "Implement Green Roofs"
    /\ response.out[3].title = "Increase Tree Canopy"


(***************************************************************************)
(* UrbanHeatIslandAnalyzer. Units:                                         *)
(*   temperatures          hundredths of a degree Celsius                  *)
(*   the unrounded intensity  a numerator over IntensityDen                *)
(*   achievable reduction  units of 0.004 degree (0.8 * one hundredth is   *)
(*                         0.008, the catalog sum 5.3 is 1325 units)       *)
(*   money                 cents of a USD                                  *)
(*   payback               tenths of a year                                *)
(* The except branches of the steps answer fixed fallback records when an  *)
(* expression of the step raises; no expression does on a list of pairs    *)
(* of numbers, so the fallbacks are not carried.                           *)
(***************************************************************************)
Uhi_calculate_area(coordinates) ==
    DegreesToArea4(Abs(ShoelaceSum(coordinates, 1)))

\* the denominator of the unrounded intensity and of its factors
IntensityDen == 100000

\* min(area_km2 / 10.0, 1.0)
Uhi_estimate_building_density(area4) == Min(area4, 100000)

\* min(area_km2 / 5.0, 1.0)
Uhi_estimate_anthropogenic_heat(area4) == 2 * Min(area4, 50000)

\* int(area_km2 * 1000)
Uhi_estimate_population(area4) == area4 \div 10

\* a data type whose query raises or answers no row is left out
Uhi_get_alphaearth_data(coordinates, lk) ==
    [t \in {d \in DataTypes :
              LET got == Lake_get_processed_data(lk, d)
              IN  ~Raised(got) /\ Len(got.rows) > 0}
       |-> Lake_get_processed_data(lk, t).rows[1]]

\* an indicator taken as it is instead of its complement
Uhi_urban_factor_direct(data, indicator, default) ==
    Get(data, indicator, default) * 1000

\* 1 - data.get(indicator, default), over IntensityDen
Uhi_urban_factor(data, indicator, default) ==
    (100 - Get(data, indicator, default)) * 1000

Uhi_calculate_uhi_intensity(coordinates, area4, alphaearth_data) ==
    LET base_uhi_intensity == 250000
        satellite_data == Get(alphaearth_data, "satellite_processed", EmptyDict)
        data == Get(satellite_data, "data", EmptyDict)
        has_satellite == DOMAIN alphaearth_data # {} /\ DOMAIN satellite_data # {}
        urban_factors ==
            IF has_satellite
            THEN [building_density |-> Uhi_estimate_building_density(area4),
                  impervious_surface |-> Uhi_urban_factor(data, "ndvi", 50),
                  lack_of_vegetation |->
                      Uhi_urban_factor(data, "vegetation_density", 40),
                  anthropogenic_heat |-> Uhi_estimate_anthropogenic_heat(area4),
                  albedo |-> Uhi_urban_factor(data, "albedo", 30)]
            ELSE [building_density |-> 0, impervious_surface |-> 0,
                  lack_of_vegetation |-> 0, anthropogenic_heat |-> 0,
                  albedo |-> 0]
        uhi_intensity == base_uhi_intensity
                         + urban_factors.building_density
                         + urban_factors.impervious_surface
                         + urban_factors.lack_of_vegetation
                         + urban_factors.anthropogenic_heat
                         + urban_factors.albedo
        severity == IF uhi_intensity >= 5 * IntensityDen THEN "Extreme"
                    ELSE IF uhi_intensity >= 3 * IntensityDen THEN "High"
                    ELSE IF 2 * uhi_intensity >= 3 * IntensityDen THEN "Moderate"
                    ELSE "Low"
    IN  [temperature_difference |-> Round(uhi_intensity, IntensityDen \div 100),
         severity |-> severity,
         contributing_factors |-> urban_factors]

Uhi_get_mitigation_priority(severity) ==
    CASE severity = "Extreme" -> "Critical"
      [] severity = "High" -> "High"
      [] severity = "Moderate" -> "Medium"
      [] severity = "Low" -> "Low"
      [] OTHER -> "Medium"

\* energy savings population * 12.5 * (r * 3.5 / 100) * 120 = population * r * 52.5,
\* health savings population * r * 100, productivity gains population * r * 250
\* USD; with r in units of 0.004 degree, in cents
Uhi_calculate_mitigation_benefits(temp_reduction, area4) ==
    LET population == Uhi_estimate_population(area4)
        energy_savings == population * temp_reduction * 21
        health_savings == population * temp_reduction * 40
        productivity_gains == population * temp_reduction * 100
    IN  energy_savings + health_savings + productivity_gains

\* the catalog: temperature reductions in tenths of a degree, feasibility in
\* tenths, costs area_km2 * USD per km2 in cents
Uhi_mitigation_strategies(area4) ==
    [green_roofs |->
        [temperature_reduction |-> 15,
         implementation_cost |-> area4 * 500,
         maintenance_cost |-> area4 * 50,
         feasibility |-> 8,
         description |-> "Install green roofs on buildings"],
     urban_forests |->
        [temperature_reduction |-> 20,
         implementation_cost |-> area4 * 300,
         maintenance_cost |-> area4 * 30,
         feasibility |-> 9,
         description |-> "Increase tree canopy coverage"],
     cool_pavements |->
        [temperature_reduction |-> 10,
         implementation_cost |-> area4 * 400,
         maintenance_cost |-> area4 * 20,
         feasibility |-> 7,
         description |-> "Replace dark surfaces with reflective materials"],
     water_features |->
        [temperature_reduction |-> 8,
         implementation_cost |-> area4 * 600,
         maintenance_cost |-> area4 * 80,
         feasibility |-> 6,
         description |-> "Add fountains, ponds, and water features"]]

RECURSIVE SumOver(_, _, _)
\* sum(strategy[field] for strategy in mitigation_strategies.values())
SumOver(strategies, names, field) ==
    IF names = {} THEN 0
    ELSE LET n == CHOOSE x \in names : TRUE
         IN  strategies[n][field] + SumOver(strategies, names \ {n}, field)

\* the payback period with 0 in place of infinity
Uhi_payback_period_zero(total_implementation_cost, annual_benefits, total_annual_maintenance) ==
    IF annual_benefits - total_annual_maintenance > 0
    THEN [kind |-> "number",
          tenths |-> Round(10 * total_implementation_cost,
                           annual_benefits - total_annual_maintenance)]
    ELSE [kind |-> "number", tenths |-> 0]

\* implementation / (benefits - maintenance) when that difference is > 0, else
\* infinity; reported rounded to 1 decimal, infinity as "N/A"
Uhi_payback_period(total_implementation_cost, annual_benefits, total_annual_maintenance) ==
    IF annual_benefits - total_annual_maintenance > 0
    THEN [kind |-> "number",
          tenths |-> Round(10 * total_implementation_cost,
                           annual_benefits - total_annual_maintenance)]
    ELSE [kind |-> "N/A"]

\* the achievable reduction capped at the whole temperature difference
Uhi_achievable_reduction_uncapped(max_reduction, temp_difference) ==
    (Min(max_reduction, temp_difference * 2) * 5) \div 4

\* min(max_reduction, temp_difference * 0.8), in units of 0.004 degree; the
\* temperature difference in hundredths
Uhi_achievable_reduction(max_reduction, temp_difference) ==
    Min(max_reduction, temp_difference * 2)

Uhi_assess_mitigation_potential(coordinates, uhi_intensity, alphaearth_data) ==
    LET temp_difference == uhi_intensity.temperature_difference
        area4 == Uhi_calculate_area(coordinates)
        mitigation_strategies == Uhi_mitigation_strategies(area4)
        \* in units of 0.004 degree: tenths * 25, hundredths * 0.8 * 2.5
        max_reduction ==
            25 * SumOver(mitigation_strategies, DOMAIN mitigation_strategies,
                         "temperature_reduction")
        achievable_reduction == Uhi_achievable_reduction(max_reduction, temp_difference)
        total_implementation_cost ==
            SumOver(mitigation_strategies, DOMAIN mitigation_strategies,
                    "implementation_cost")
        total_annual_maintenance ==
            SumOver(mitigation_strategies, DOMAIN mitigation_strategies,
                    "maintenance_cost")
        annual_benefits == Uhi_calculate_mitigation_benefits(achievable_reduction, area4)
    IN  [mitigation_strategies |-> mitigation_strategies,
         achievable_temperature_reduction |-> Round(4 * achievable_reduction, 10),
         cost_analysis |->
            [total_implementation_cost_usd |-> total_implementation_cost,
             total_annual_maintenance_usd |-> total_annual_maintenance,
             annual_benefits_usd |-> annual_benefits,
             payback_period_years |->
                 Uhi_payback_period(total_implementation_cost, annual_benefits,
                                    total_annual_maintenance)],
         mitigation_priority |-> Uhi_get_mitigation_priority(uhi_intensity.severity),
         implementation_timeline |-> "3-5 years"]

\* int(x) for the quotient n / d, d > 0: cut off toward zero
PyInt(n, d) == IF n >= 0 THEN n \div d ELSE -((-n) \div d)

\* int(area_km2 * 500)
Uhi_estimate_building_count(area4) == area4 \div 20

\* energy_increase in thousandths of a percent
Uhi_get_energy_efficiency_rating(energy_increase) ==
    IF energy_increase <= 5000 THEN "Good"
    ELSE IF energy_increase <= 10000 THEN "Fair"
    ELSE IF energy_increase <= 15000 THEN "Poor"
    ELSE "Very Poor"

\* cooling 3.5 % and heating 2.0 * 0.3 % per degree, so the net increase is
\* 2.9 % per degree; the additional energy population * 12.5 * net / 100 MWh
\* is population * temp_difference * 0.3625 hundredths of a MWh, its cost at
\* 120 USD per MWh population * temp_difference * 43.5 cents. Percentages
\* are reported in hundredths of a percent.
Uhi_analyze_energy_consumption_impact(uhi_intensity, area4, alphaearth_data) ==
    LET temp_difference == uhi_intensity.temperature_difference
        cooling_impact == 35 * temp_difference          \* thousandths of a percent
        heating_impact == 6 * temp_difference
        net_energy_increase == cooling_impact - heating_impact
        population == Uhi_estimate_population(area4)
        buildings == Uhi_estimate_building_count(area4)
    IN  [net_energy_increase_percent |-> Round(net_energy_increase, 10),
         cooling_energy_increase_percent |-> Round(cooling_impact, 10),
         heating_energy_decrease_percent |-> Round(heating_impact, 10),
         additional_energy_consumption_mwh |->
             Round(population * net_energy_increase, 80),
         additional_energy_cost_usd |->
             Round(3 * population * net_energy_increase, 2),
         affected_population |-> population,
         affected_buildings |-> buildings,
         energy_efficiency_rating |->
             Uhi_get_energy_efficiency_rating(net_energy_increase)]

\* aqi_increase as a numerator over 3000 (hundredths of a degree * 47)
Uhi_get_air_quality_rating(aqi_increase) ==
    IF aqi_increase <= 2 * 3000 THEN "Good"
    ELSE IF aqi_increase <= 5 * 3000 THEN "Moderate"
    ELSE IF aqi_increase <= 8 * 3000 THEN "Unhealthy for Sensitive Groups"
    ELSE "Unhealthy"

\* ozone 2.0, PM2.5 1.5 and NO2 1.2 per degree; aqi_increase is their mean,
\* temp_difference * 4.7 / 3. The case counts are int(population * share *
\* aqi_increase / 10) (premature deaths / 20); the health cost is 500 USD
\* per respiratory or cardiovascular case, in cents.
Uhi_analyze_air_quality_impact(uhi_intensity, area4, alphaearth_data) ==
    LET temp_difference == uhi_intensity.temperature_difference
        ozone_increase == 20 * temp_difference          \* thousandths
        pm2_5_increase == 15 * temp_difference
        no2_increase == 12 * temp_difference
        aqi_increase == ozone_increase + pm2_5_increase + no2_increase  \* over 3000
        population == Uhi_estimate_population(area4)
        respiratory_issues == PyInt(population * aqi_increase, 200000)
        cardiovascular_issues == PyInt(population * aqi_increase, 375000)
        premature_deaths == PyInt(population * aqi_increase, 60000000)
        health_cost_per_person == 50000
        total_health_cost ==
            (respiratory_issues + cardiovascular_issues) * health_cost_per_person
    IN  [air_quality_degradation |->
            [ozone_increase_ppb |-> Round(ozone_increase, 10),
             pm2_5_increase_ugm3 |-> Round(pm2_5_increase, 10),
             no2_increase_ppb |-> Round(no2_increase, 10),
             aqi_increase |-> Round(aqi_increase, 30)],
         health_impacts |->
            [respiratory_issues |-> respiratory_issues,
             cardiovascular_issues |-> cardiovascular_issues,
             premature_deaths |-> premature_deaths,
             total_health_cost_usd |-> total_health_cost],
         air_quality_rating |-> Uhi_get_air_quality_rating(aqi_increase),
         affected_population |-> population]

\* (elderly / total) * 0.4 + (children / total) * 0.3 + (low_income / total) * 0.3,
\* 0.0 when total is 0; a numerator over 100 * Max(total, 1)
Uhi_calculate_vulnerability_score(elderly, children, low_income, total) ==
    IF total = 0 THEN 0
    ELSE 40 * elderly + 30 * children + 30 * low_income

\* risk_score = vulnerability_score * (temp_difference / 5.0); with the score
\* over 100 * Max(total, 1) and the difference in hundredths the product is
\* over 50000 * Max(total, 1)
Uhi_get_health_risk_rating(vulnerability_score, total, temp_difference) ==
    LET risk_score == vulnerability_score * temp_difference
        den == 50000 * Max(total, 1)
    IN  IF 5 * risk_score <= 1 * den THEN "Low"
        ELSE IF 5 * risk_score <= 2 * den THEN "Moderate"
        ELSE IF 5 * risk_score <= 3 * den THEN "High"
        ELSE "Very High"

\* case counts int(population * share * temp_difference / 2), 2000 USD per
\* case; productivity loss population * (0.5 % per degree) * 50000 USD,
\* which is population * temp_difference * 250 cents
Uhi_analyze_public_health_impact(uhi_intensity, area4, alphaearth_data) ==
    LET temp_difference == uhi_intensity.temperature_difference
        population == Uhi_estimate_population(area4)
        heat_stress_cases == PyInt(population * temp_difference, 4000)
        heat_exhaustion_cases == PyInt(population * temp_difference, 10000)
        heat_stroke_cases == PyInt(population * temp_difference, 200000)
        elderly_population == (population * 15) \div 100
        children_population == (population * 20) \div 100
        low_income_population == (population * 25) \div 100
        vulnerability_score ==
            Uhi_calculate_vulnerability_score(elderly_population, children_population,
                                              low_income_population, population)
        healthcare_cost_per_case == 200000
        total_healthcare_cost ==
            (heat_stress_cases + heat_exhaustion_cases + heat_stroke_cases)
                * healthcare_cost_per_case
        productivity_loss == population * temp_difference * 250
    IN  [heat_related_health_impacts |->
            [heat_stress_cases |-> heat_stress_cases,
             heat_exhaustion_cases |-> heat_exhaustion_cases,
             heat_stroke_cases |-> heat_stroke_cases,
             total_healthcare_cost_usd |-> total_healthcare_cost],
         vulnerable_populations |->
            [elderly |-> elderly_population,
             children |-> children_population,
             low_income |-> low_income_population,
             vulnerability_score |-> Round(vulnerability_score, Max(population, 1))],
         productivity_impact |->
            [productivity_loss_percent |-> Round(temp_difference, 2),
             productivity_loss_usd |-> productivity_loss],
         health_risk_rating |->
             Uhi_get_health_risk_rating(vulnerability_score, population,
                                        temp_difference)]

\* "Unknown" for a population of 0; else the bucket of total_cost / population
\* at 100, 300 and 500 USD; total_cost in cents
Uhi_get_economic_impact_rating(total_cost, population) ==
    IF population = 0 THEN "Unknown"
    ELSE IF total_cost <= 10000 * population THEN "Low"
    ELSE IF total_cost <= 30000 * population THEN "Moderate"
    ELSE IF total_cost <= 50000 * population THEN "High"
    ELSE "Very High"

\* the economic impact with the productivity loss left out of the total
Uhi_calculate_economic_impact_direct(energy_impact, air_quality_impact, health_impact, area4) ==
    LET energy_cost == Get(energy_impact, "additional_energy_cost_usd", 0)
        health_cost ==
            Get(Get(health_impact, "heat_related_health_impacts", EmptyDict),
                "total_healthcare_cost_usd", 0)
        air_quality_cost ==
            Get(Get(air_quality_impact, "health_impacts", EmptyDict),
                "total_health_cost_usd", 0)
        productivity_loss ==
            Get(Get(health_impact, "productivity_impact", EmptyDict),
                "productivity_loss_usd", 0)
        total_annual_cost == energy_cost + health_cost + air_quality_cost
        population == Uhi_estimate_population(area4)
    IN  [total_annual_cost_usd |-> total_annual_cost,
         cost_breakdown |->
            [energy_cost |-> energy_cost,
             health_cost |-> health_cost,
             air_quality_cost |-> air_quality_cost,
             productivity_loss |-> productivity_loss],
         cost_per_capita_usd |->
             IF population > 0 THEN Round(total_annual_cost, population) ELSE 0,
         cost_per_km2_usd |->
             IF area4 > 0
             THEN (total_annual_cost \div area4) * 10000
                  + Round((total_annual_cost % area4) * 10000, area4)
             ELSE 0,
         economic_impact_rating |->
             Uhi_get_economic_impact_rating(total_annual_cost, population)]

\* money in cents; cost_per_km2 is total / (area4 / 10000), the quotient
\* taken in two parts to stay within the integers
Uhi_calculate_economic_impact(energy_impact, air_quality_impact, health_impact, area4) ==
    LET energy_cost == Get(energy_impact, "additional_energy_cost_usd", 0)
        health_cost ==
            Get(Get(health_impact, "heat_related_health_impacts", EmptyDict),
                "total_healthcare_cost_usd", 0)
        air_quality_cost ==
            Get(Get(air_quality_impact, "health_impacts", EmptyDict),
                "total_health_cost_usd", 0)
        productivity_loss ==
            Get(Get(health_impact, "productivity_impact", EmptyDict),
                "productivity_loss_usd", 0)
        total_annual_cost ==
            energy_cost + health_cost + air_quality_cost + productivity_loss
        population == Uhi_estimate_population(area4)
    IN  [total_annual_cost_usd |-> total_annual_cost,
         cost_breakdown |->
            [energy_cost |-> energy_cost,
             health_cost |-> health_cost,
             air_quality_cost |-> air_quality_cost,
             productivity_loss |-> productivity_loss],
         cost_per_capita_usd |->
             IF population > 0 THEN Round(total_annual_cost, population) ELSE 0,
         cost_per_km2_usd |->
             IF area4 > 0
             THEN (total_annual_cost \div area4) * 10000
                  + Round((total_annual_cost % area4) * 10000, area4)
             ELSE 0,
         economic_impact_rating |->
             Uhi_get_economic_impact_rating(total_annual_cost, population)]

\* min(temperature_difference / 5, 1) * 0.3 + min(net_energy_increase_percent / 20, 1)
\* * 0.25 + min(aqi_increase / 10, 1) * 0.25 + min(vulnerability_score, 1) * 0.2,
\* from the reported (rounded) values; the sub-scores over 2000, the result
\* rounded to thousandths
Uhi_calculate_overall_uhi_risk(uhi_intensity, energy_impact, air_quality_impact, health_impact) ==
    LET temp_score == Min(4 * uhi_intensity.temperature_difference, 2000)
        energy_score == Min(energy_impact.net_energy_increase_percent, 2000)
        air_score ==
            Min(2 * air_quality_impact.air_quality_degradation.aqi_increase, 2000)
        health_score ==
            Min(20 * health_impact.vulnerable_populations.vulnerability_score, 2000)
        overall_risk == 30 * temp_score + 25 * energy_score
                        + 25 * air_score + 20 * health_score
    IN  Round(overall_risk, 200)

\* alphaearth_data is fetched from the lake when the caller passes None or
\* an empty dictionary
Uhi_comprehensive_uhi_analysis(coordinates, time_horizon, alphaearth_data_arg, lk) ==
    LET alphaearth_data == IF DOMAIN alphaearth_data_arg = {}
                           THEN Uhi_get_alphaearth_data(coordinates, lk)
                           ELSE alphaearth_data_arg
        area4 == Uhi_calculate_area(coordinates)
        uhi_intensity == Uhi_calculate_uhi_intensity(coordinates, area4, alphaearth_data)
        energy_impact ==
            Uhi_analyze_energy_consumption_impact(uhi_intensity, area4, alphaearth_data)
        air_quality_impact ==
            Uhi_analyze_air_quality_impact(uhi_intensity, area4, alphaearth_data)
        health_impact ==
            Uhi_analyze_public_health_impact(uhi_intensity, area4, alphaearth_data)
        mitigation_potential ==
            Uhi_assess_mitigation_potential(coordinates, uhi_intensity, alphaearth_data)
        economic_impact ==
            Uhi_calculate_economic_impact(energy_impact, air_quality_impact,
                                          health_impact, area4)
    IN  [status |-> "ok",
         uhi_intensity |-> uhi_intensity,
         energy_consumption_impact |-> energy_impact,
         air_quality_impact |-> air_quality_impact,
         public_health_impact |-> health_impact,
         mitigation_potential |-> mitigation_potential,
         economic_impact |-> economic_impact,
         overall_uhi_risk_score |->
             Uhi_calculate_overall_uhi_risk(uhi_intensity, energy_impact,
                                            air_quality_impact, health_impact),
         analysis_metadata |->
            [coordinates |-> coordinates,
             area_km2 |-> area4,
             time_horizon |-> time_horizon,
             data_source |-> IF DOMAIN alphaearth_data # {}
                             THEN "alphaearth" ELSE "placeholder"]]

(***************************************************************************)
(* api/routes/uhi_analysis.py: POST /mitigation-analysis                   *)
(***************************************************************************)
\* the fixed order of the strategies for a priority focus
Route_priority_order(priority_focus) ==
    IF priority_focus = "energy_savings"
    THEN <<"green_roofs", "urban_forests", "cool_pavements", "water_features">>
    ELSE IF priority_focus = "health_improvement"
    THEN <<"urban_forests", "green_roofs", "water_features", "cool_pavements">>
    ELSE IF priority_focus = "air_quality"
    THEN <<"urban_forests", "green_roofs", "water_features", "cool_pavements">>
    ELSE <<"urban_forests", "green_roofs", "cool_pavements", "water_features">>

RECURSIVE Route_append_recommendations_positional(_, _, _)
\* the loop numbering a strategy by its place in priority_order
Route_append_recommendations_positional(priority_order, strategies, recommendations) ==
    IF priority_order = <<>> THEN recommendations
    ELSE LET strategy_name == Head(priority_order)
         IN  IF strategy_name \in DOMAIN strategies
             THEN Route_append_recommendations_positional(
                      Tail(priority_order), strategies,
                      Append(recommendations,
                             [strategy |-> strategy_name,
                              title |-> strategies[strategy_name].description,
                              temperature_reduction |->
                                  strategies[strategy_name].temperature_reduction,
                              implementation_cost |->
                                  strategies[strategy_name].implementation_cost,
                              feasibility |-> strategies[strategy_name].feasibility,
                              priority |-> 5 - Len(priority_order)]))
             ELSE Route_append_recommendations_positional(Tail(priority_order),
                                                          strategies, recommendations)

RECURSIVE Route_append_recommendations(_, _, _)
\* the loop over priority_order: a strategy of the catalog is appended with
\* the next priority number
Route_append_recommendations(priority_order, strategies, recommendations) ==
    IF priority_order = <<>> THEN recommendations
    ELSE LET strategy_name == Head(priority_order)
         IN  IF strategy_name \in DOMAIN strategies
             THEN Route_append_recommendations(
                      Tail(priority_order), strategies,
                      Append(recommendations,
                             [strategy |-> strategy_name,
                              title |-> strategies[strategy_name].description,
                              temperature_reduction |->
                                  strategies[strategy_name].temperature_reduction,
                              implementation_cost |->
                                  strategies[strategy_name].implementation_cost,
                              feasibility |-> strategies[strategy_name].feasibility,
                              priority |-> Len(recommendations) + 1]))
             ELSE Route_append_recommendations(Tail(priority_order), strategies,
                                               recommendations)

Route_generate_priority_recommendations(mitigation_analysis, priority_focus) ==
    Route_append_recommendations(Route_priority_order(priority_focus),
                                 Get(mitigation_analysis, "mitigation_strategies",
                                     EmptyDict),
                                 <<>>)

\* budget_constraint is Optional[float]: <<>> is None, <<b>> the number b in
\* USD. The filter runs when the value is truthy (neither None nor 0); it
\* writes into the dictionary that baseline_analysis holds, so the baseline
\* returned shows the filtered catalog too. An HTTPException raised inside
\* the try block is caught by its except clause and re-raised with status 500.
Route_mitigation_response(req, baseline_analysis) ==
    LET mitigation_potential == baseline_analysis.mitigation_potential
        strategies == mitigation_potential.mitigation_strategies
        filtered_strategies ==
            [strategy \in {n \in DOMAIN strategies :
                             strategies[n].implementation_cost
                                 <= 100 * req.budget_constraint[1]}
               |-> strategies[strategy]]
        mitigation_analysis ==
            IF req.budget_constraint # <<>> /\ req.budget_constraint[1] # 0
            THEN [mitigation_potential EXCEPT
                     !.mitigation_strategies = filtered_strategies]
            ELSE mitigation_potential
    IN  [status |-> "completed",
         baseline_analysis |->
             [baseline_analysis EXCEPT !.mitigation_potential = mitigation_analysis],
         mitigation_analysis |-> mitigation_analysis,
         priority_recommendations |->
             Route_generate_priority_recommendations(mitigation_analysis,
                                                     req.priority_focus),
         metadata |-> [coordinates |-> req.coordinates,
                       budget_constraint |-> req.budget_constraint,
                       priority_focus |-> req.priority_focus]]

\* the handler: coordinate validation, the baseline analysis, the response
uhi_mitigation_analysis(req, lk) ==
    IF ~ValidPolygon(req.coordinates)
    THEN [status |-> "raised", error |-> "HTTPException", status_code |-> 500]
    ELSE Route_mitigation_response(
             req, Uhi_comprehensive_uhi_analysis(req.coordinates, 10, EmptyDict, lk))

(***************************************************************************)
(* SpecUHI: one urban heat island operation on a polygon                   *)
(***************************************************************************)
\* with (4,8) the polygons have areas from 0 (collinear or self-crossing)
\* to 7.4 km2, on both sides of the 5 km2 cap of the anthropogenic heat
UhiVertices == {<<0, 0>>, <<1, 0>>, <<1, 1>>, <<0, 1>>, <<4, 8>>}

UhiPolygons ==
    UNION {{s \in [1..n -> UhiVertices] : IsInjective(s)} : n \in 0..MaxVertices}

\* budget ceilings in USD; the catalog of the 0.01 degree square costs
\* 37176, 49568, 61960 and 74352 USD
BudgetSamples == {-1, 0, 30000, 40000, 50000, 65000, 400000}

Budgets == {<<>>} \cup {<<b>> : b \in BudgetSamples}

PriorityFocuses == {"energy_savings", "health_improvement", "air_quality",
                    "comprehensive"}

InitUHI ==
    /\ request \in [coordinates : UhiPolygons,
                    budget_constraint : Budgets,
                    priority_focus : PriorityFocuses]
    /\ lake = None
    /\ pc = "idle"
    /\ response = None

ComprehensiveUhiAnalysis ==
    /\ pc = "idle"
    /\ \E lk \in LakeStates :
          /\ lake' = lk
          /\ response' = [op |-> "comprehensive_uhi_analysis",
                          out |-> Uhi_comprehensive_uhi_analysis(
                                      request.coordinates, 10, EmptyDict, lk)]
    /\ pc' = "done"
    /\ UNCHANGED request

UhiMitigationAnalysis ==
    /\ pc = "idle"
    /\ \E lk \in LakeStates :
          /\ lake' = lk
          /\ response' = [op |-> "uhi_mitigation_analysis",
                          out |-> uhi_mitigation_analysis(request, lk)]
    /\ pc' = "done"
    /\ UNCHANGED request

NextUHI ==
    \/ ComprehensiveUhiAnalysis
    \/ UhiMitigationAnalysis

SpecUHI == InitUHI /\ [][NextUHI]_vars

(***************************************************************************)
(* Claims on the urban heat island operations (SpecUHI)                    *)
(***************************************************************************)
\* the mitigation-potential result the operation returned
MitigationPotential ==
    IF response.op = "uhi_mitigation_analysis"
    THEN response.out.baseline_analysis.mitigation_potential
    ELSE response.out.mitigation_potential

ReturnedMitigationPotential ==
    \/ Returned("comprehensive_uhi_analysis")
    \/ Returned("uhi_mitigation_analysis") /\ response.out.status = "completed"

\* C7: in every mitigation-potential result payback_period_years is "N/A"
\* when annual benefit <= annual maintenance, and otherwise a number > 0 that
\* is implementation cost / (benefit - maintenance) rounded to 1 decimal;
\* it is never zero, negative or infinite
C7_PaybackPeriod ==
    ReturnedMitigationPotential =>
        LET ca == MitigationPotential.cost_analysis
            net == ca.annual_benefits_usd - ca.total_annual_maintenance_usd
            payback == ca.payback_period_years
        IN  /\ payback.kind \in {"N/A", "number"}
            /\ net <= 0 => payback.kind = "N/A"
            /\ net > 0 =>
                  /\ payback.kind = "number"
                  /\ payback.tenths > 0
                  /\ LET off == Abs(10 * ca.total_implementation_cost_usd
                                    - payback.tenths * net)
                     IN  off <= net - off

\* C7 witness: a valid self-crossing polygon of area 0, where benefit and
\* maintenance are both 0 and the payback is "N/A"
C7_Witness ==
    /\ Returned("uhi_mitigation_analysis")
    /\ response.out.status = "completed"
    /\ MitigationPotential.cost_analysis.annual_benefits_usd = 0
    /\ MitigationPotential.cost_analysis.total_annual_maintenance_usd = 0
    /\ MitigationPotential.cost_analysis.payback_period_years.kind = "N/A"

\* C7, the other case: a payback of 0.2 years on the 0.01 degree square
\* without satellite data
C7_NumberReached ==
    /\ Returned("comprehensive_uhi_analysis")
    /\ request.coordinates = UnitSquare
    /\ lake.mode = "disabled"
    /\ MitigationPotential.cost_analysis.payback_period_years
           = [kind |-> "number", tenths |-> 2]

\* the strategies of the full catalog of the request's area that cost at
\* most b USD
C10_Affordable(b) ==
    LET catalog == Uhi_mitigation_strategies(Uhi_calculate_area(request.coordinates))
    IN  {n \in DOMAIN catalog : catalog[n].implementation_cost <= 100 * b}

\* C10: whenever a budget ceiling b (any number, 0 included) is supplied to
\* the mitigation analysis on valid coordinates, the operation completes and
\* the catalog used for the recommendations is exactly the strategies with
\* implementation_cost <= b; when none is affordable the filtered catalog
\* and the priority recommendations are both empty
C10_BudgetFilterExact ==
    (Returned("uhi_mitigation_analysis") /\ ValidPolygon(request.coordinates)
        /\ request.budget_constraint # <<>>) =>
        /\ response.out.status = "completed"
        /\ DOMAIN response.out.mitigation_analysis.mitigation_strategies
               = C10_Affordable(request.budget_constraint[1])
        /\ {response.out.priority_recommendations[i].strategy :
               i \in DOMAIN response.out.priority_recommendations}
               = C10_Affordable(request.budget_constraint[1])
        /\ C10_Affordable(request.budget_constraint[1]) = {} =>
               response.out.priority_recommendations = <<>>

\* C10 for the budgets other than 0: the filter is exact
C10_NonZeroBudgetFilterExact ==
    (Returned("uhi_mitigation_analysis") /\ ValidPolygon(request.coordinates)
        /\ request.budget_constraint # <<>> /\ request.budget_constraint[1] # 0) =>
        /\ response.out.status = "completed"
        /\ DOMAIN response.out.mitigation_analysis.mitigation_strategies
               = C10_Affordable(request.budget_constraint[1])
        /\ {response.out.priority_recommendations[i].strategy :
               i \in DOMAIN response.out.priority_recommendations}
               = C10_Affordable(request.budget_constraint[1])

\* the order of the four strategies the route documents for a focus
C11_Order(priority_focus) ==
    CASE priority_focus = "energy_savings" ->
             <<"green_roofs", "urban_forests", "cool_pavements", "water_features">>
      [] priority_focus \in {"health_improvement", "air_quality"} ->
             <<"urban_forests", "green_roofs", "water_features", "cool_pavements">>
      [] OTHER ->
             <<"urban_forests", "green_roofs", "cool_pavements", "water_features">>

\* the place of a strategy in a focus's order
C11_Place(priority_focus, name) ==
    CHOOSE i \in 1..4 : C11_Order(priority_focus)[i] = name

\* C11: the priority recommendations of a completed mitigation analysis are
\* the strategies of the (possibly budget-filtered) catalog, each once, in
\* the fixed order of the request's priority focus, numbered 1..k in list
\* order without gaps, with temperature reduction, cost and feasibility
\* copied unchanged from the catalog
C11_PriorityRecommendations ==
    (Returned("uhi_mitigation_analysis") /\ response.out.status = "completed") =>
        LET recs == response.out.priority_recommendations
            strategies == response.out.mitigation_analysis.mitigation_strategies
            focus == request.priority_focus
        IN  /\ {recs[i].strategy : i \in DOMAIN recs} = DOMAIN strategies
            /\ Len(recs) = Cardinality(DOMAIN strategies)
            /\ \A i \in DOMAIN recs :
                  /\ recs[i].priority = i
                  /\ recs[i].temperature_reduction
                         = strategies[recs[i].strategy].temperature_reduction
                  /\ recs[i].implementation_cost
                         = strategies[recs[i].strategy].implementation_cost
                  /\ recs[i].feasibility = strategies[recs[i].strategy].feasibility
            /\ \A i, j \in DOMAIN recs :
                  i < j => C11_Place(focus, recs[i].strategy)
                               < C11_Place(focus, recs[j].strategy)

\* C11 witness: a budget of 50000 USD on the 0.01 degree square leaves
\* urban forests and cool pavements; under the health focus they are
\* numbered 1 and 2 although cool pavements is last of four in the order
C11_Witness ==
    /\ Returned("uhi_mitigation_analysis")
    /\ response.out.status = "completed"
    /\ request.coordinates = UnitSquare
    /\ request.budget_constraint = <<50000>>
    /\ request.priority_focus = "health_improvement"
    /\ Len(response.out.priority_recommendations) = 2
    /\ response.out.priority_recommendations[1].strategy = "urban_forests"
    /\ response.out.priority_recommendations[2].strategy = "cool_pavements"
    /\ response.out.priority_recommendations[2].priority = 2

\* the UHI intensity record the operation returned
UhiIntensity ==
    IF response.op = "uhi_mitigation_analysis"
    THEN response.out.baseline_analysis.uhi_intensity
    ELSE response.out.uhi_intensity

IndicatorPolygons ==
    {<<>>,
     UnitSquare,
     <<<<0, 0>>, <<1, 1>>, <<1, 0>>, <<0, 1>>>>,
     <<<<0, 0>>, <<1, 0>>, <<1, 1>>>>,
     <<<<0, 0>>, <<1, 0>>, <<4, 8>>>>,
     <<<<0, 0>>, <<5, 0>>, <<5, 1>>, <<0, 1>>>>}

\* indicator values in hundredths, <<>> when the key is absent: the
\* documented range is [-1, 1] for ndvi and [0, 1] for the other two; 300
\* and 200 lie outside it
NdviSamples == {<<>>, <<-100>>, <<10>>, <<49>>, <<50>>, <<80>>, <<300>>}

VegetationDensitySamples == {<<>>, <<10>>, <<40>>, <<70>>, <<200>>}

AlbedoSamples == {<<>>, <<10>>, <<30>>, <<60>>, <<200>>}

\* the "data" dict of a satellite row holding the supplied indicators only
IndicatorData(ndvi, vegetation_density, albedo) ==
    [k \in (IF ndvi = <<>> THEN {} ELSE {"ndvi"})
           \cup (IF vegetation_density = <<>> THEN {} ELSE {"vegetation_density"})
           \cup (IF albedo = <<>> THEN {} ELSE {"albedo"})
       |-> IF k = "ndvi" THEN ndvi[1]
           ELSE IF k = "vegetation_density" THEN vegetation_density[1]
           ELSE albedo[1]]

\* alphaearth_data with a satellite row carrying the given indicators
SatelliteData(ndvi, vegetation_density, albedo) ==
    [satellite_processed |->
        [data |-> IndicatorData(ndvi, vegetation_density, albedo)]]

\* the alphaearth_data arguments: none, an empty satellite row, or a
\* satellite row with any combination of supplied indicators
AlphaEarthSamples ==
    {EmptyDict, [satellite_processed |-> EmptyDict]}
    \cup {SatelliteData(n, v, a) : n \in NdviSamples,
                                   v \in VegetationDensitySamples,
                                   a \in AlbedoSamples}

InitIndicators ==
    /\ request \in [coordinates : IndicatorPolygons,
                    alphaearth_data : AlphaEarthSamples]
    /\ lake = None
    /\ pc = "idle"
    /\ response = None

\* comprehensive_uhi_analysis(coordinates, alphaearth_data=...): the data
\* lake is read only when the argument is empty
AnalyzeIndicators ==
    /\ pc = "idle"
    /\ \E lk \in LakeStates :
          /\ lake' = lk
          /\ response' = [op |-> "comprehensive_uhi_analysis",
                          out |-> Uhi_comprehensive_uhi_analysis(
                                      request.coordinates, 10,
                                      request.alphaearth_data, lk)]
    /\ pc' = "done"
    /\ UNCHANGED request

\* _calculate_uhi_intensity(coordinates, area_km2, alphaearth_data) alone
CalculateUhiIntensity ==
    /\ pc = "idle"
    /\ response' = [op |-> "calculate_uhi_intensity",
                    out |-> Uhi_calculate_uhi_intensity(
                                request.coordinates,
                                Uhi_calculate_area(request.coordinates),
                                request.alphaearth_data)]
    /\ pc' = "done"
    /\ UNCHANGED <<request, lake>>

NextIndicators ==
    \/ AnalyzeIndicators
    \/ CalculateUhiIntensity

SpecIndicators == InitIndicators /\ [][NextIndicators]_vars

(***************************************************************************)
(* Claims on the analyzer with supplied indicators (SpecIndicators)        *)
(***************************************************************************)
\* the economic-impact result the analysis returned
EconomicImpact == response.out.economic_impact

\* the analysis returned an economic-impact result
ReturnedEconomicImpact ==
    /\ pc = "done"
    /\ response.op = "comprehensive_uhi_analysis"

\* the indicators the caller supplied in the satellite row
SuppliedIndicators ==
    Get(Get(request.alphaearth_data, "satellite_processed", EmptyDict),
        "data", EmptyDict)

\* every supplied indicator lies in its documented range
IndicatorsInRange ==
    /\ Get(SuppliedIndicators, "ndvi", 50) \in -100..100
    /\ Get(SuppliedIndicators, "vegetation_density", 40) \in 0..100
    /\ Get(SuppliedIndicators, "albedo", 30) \in 0..100

\* total_annual_cost_usd is the sum of the four reported entries
C13_TotalIsSum ==
    LET breakdown == EconomicImpact.cost_breakdown
    IN  EconomicImpact.total_annual_cost_usd =
            breakdown.energy_cost + breakdown.health_cost
            + breakdown.air_quality_cost + breakdown.productivity_loss

\* each of the four reported entries is >= 0
C13_EntriesNonNegative ==
    LET breakdown == EconomicImpact.cost_breakdown
    IN  /\ breakdown.energy_cost >= 0
        /\ breakdown.health_cost >= 0
        /\ breakdown.air_quality_cost >= 0
        /\ breakdown.productivity_loss >= 0

C14_Bucket(cost_per_capita) ==
    IF cost_per_capita <= 10000 THEN "Low"
    ELSE IF cost_per_capita <= 30000 THEN "Moderate"
    ELSE IF cost_per_capita <= 50000 THEN "High"
    ELSE "Very High"

\* C14: for every analysed area, those with an estimated population of 0
\* included, economic_impact_rating is one of Low, Moderate, High, Very High
\* and is the bucket of the reported cost_per_capita_usd
C14_RatingIsBucketOfCostPerCapita ==
    ReturnedEconomicImpact =>
        /\ EconomicImpact.economic_impact_rating
               \in {"Low", "Moderate", "High", "Very High"}
        /\ EconomicImpact.economic_impact_rating
               = C14_Bucket(EconomicImpact.cost_per_capita_usd)

\* the same statement for the areas with an estimated population above 0
C14_RatingIsBucketWhenPopulated ==
    ReturnedEconomicImpact
    /\ Uhi_estimate_population(response.out.analysis_metadata.area_km2) > 0 =>
        EconomicImpact.economic_impact_rating
            = C14_Bucket(EconomicImpact.cost_per_capita_usd)

\* the self-crossing square has area 0 and population 0: the reported cost
\* per capita is 0 and the rating is "Unknown"
C14_UnknownReached ==
    /\ ReturnedEconomicImpact
    /\ request.coordinates = <<<<0, 0>>, <<1, 1>>, <<1, 0>>, <<0, 1>>>>
    /\ EconomicImpact.cost_per_capita_usd = 0
    /\ EconomicImpact.economic_impact_rating = "Unknown"

\* 0.3*temp + 0.25*energy + 0.25*air + 0.2*vulnerability of an analysis
\* result, every sub-score clamped to [0, 1], in thousandths
C15_ClampedWeightedScore(out) ==
    LET temp_score ==
            Max(0, Min(4 * out.uhi_intensity.temperature_difference, 2000))
        energy_score ==
            Max(0, Min(out.energy_consumption_impact.net_energy_increase_percent,
                       2000))
        air_score ==
            Max(0, Min(2 * out.air_quality_impact.air_quality_degradation.aqi_increase,
                       2000))
        health_score ==
            Max(0, Min(20 * out.public_health_impact.vulnerable_populations.vulnerability_score,
                       2000))
    IN  Round(30 * temp_score + 25 * energy_score
              + 25 * air_score + 20 * health_score, 200)

\* C15: overall_uhi_risk_score is 0.3*temp + 0.25*energy + 0.25*air
\* + 0.2*vulnerability with each sub-score clamped to [0, 1], and lies in
\* [0, 1] for any indicator values, those outside their ranges included
C15_OverallRiskClampedToUnitInterval ==
    ReturnedEconomicImpact =>
        /\ response.out.overall_uhi_risk_score = C15_ClampedWeightedScore(response.out)
        /\ response.out.overall_uhi_risk_score \in 0..1000

\* the same statement for indicators inside their documented ranges
C15_OverallRiskInRange ==
    ReturnedEconomicImpact /\ IndicatorsInRange =>
        /\ response.out.overall_uhi_risk_score = C15_ClampedWeightedScore(response.out)
        /\ response.out.overall_uhi_risk_score \in 0..1000

\* the 0.01 degree square with ndvi 3.0, vegetation_density 2.0 and albedo
\* 2.0: intensity -1.13 and an overall risk score of -0.115
C15_NegativeReached ==
    /\ ReturnedEconomicImpact
    /\ request.coordinates = UnitSquare
    /\ request.alphaearth_data = SatelliteData(<<300>>, <<200>>, <<200>>)
    /\ response.out.uhi_intensity.temperature_difference = -113
    /\ response.out.overall_uhi_risk_score = -115

\* the UHI intensity record an operation of SpecIndicators returned
ReturnedIntensity ==
    IF response.op = "calculate_uhi_intensity"
    THEN response.out
    ELSE response.out.uhi_intensity

\* the supplied indicators with every absent one replaced by its documented
\* default: ndvi 0.5, vegetation_density 0.4, albedo 0.3
C16_WithDefaults ==
    SatelliteData(<<Get(SuppliedIndicators, "ndvi", 50)>>,
                  <<Get(SuppliedIndicators, "vegetation_density", 40)>>,
                  <<Get(SuppliedIndicators, "albedo", 30)>>)

\* the intensity of the request's polygon with the defaults filled in
C16_IntensityWithDefaults ==
    Uhi_calculate_uhi_intensity(request.coordinates,
                                Uhi_calculate_area(request.coordinates),
                                C16_WithDefaults).temperature_difference

\* C16: for a fixed polygon the intensity computed with an indicator absent
\* equals the intensity computed with that indicator supplied at its
\* default value, also when no indicator data at all is supplied
C16_AbsentIndicatorIsDefault ==
    pc = "done" =>
        ReturnedIntensity.temperature_difference = C16_IntensityWithDefaults

\* the same statement for the calls that supply a non-empty satellite row
C16_AbsentIndicatorIsDefaultInSatelliteRow ==
    pc = "done"
    /\ DOMAIN Get(request.alphaearth_data, "satellite_processed", EmptyDict) # {} =>
        ReturnedIntensity.temperature_difference = C16_IntensityWithDefaults

\* the 0.01 degree square with no indicator data at all: the intensity is
\* the base 2.5, with the three defaults supplied it is 4.67
C16_NoDataReached ==
    /\ pc = "done"
    /\ response.op = "calculate_uhi_intensity"
    /\ request.coordinates = UnitSquare
    /\ request.alphaearth_data = EmptyDict
    /\ ReturnedIntensity.temperature_difference = 250
    /\ C16_IntensityWithDefaults = 467

\* the 0.01 degree square with a satellite row holding only ndvi 0.1: the
\* intensity 5.07 is the one with vegetation_density 0.4 and albedo 0.3
C16_PartialRowReached ==
    /\ pc = "done"
    /\ response.op = "calculate_uhi_intensity"
    /\ request.coordinates = UnitSquare
    /\ request.alphaearth_data = SatelliteData(<<10>>, <<>>, <<>>)
    /\ ReturnedIntensity.temperature_difference = 507
    /\ C16_IntensityWithDefaults = 507

\* the intensity of the request's polygon for the given indicators
C17_Intensity(ndvi, vegetation_density, albedo) ==
    Uhi_calculate_uhi_intensity(
        request.coordinates, Uhi_calculate_area(request.coordinates),
        SatelliteData(<<ndvi>>, <<vegetation_density>>, <<albedo>>)
    ).temperature_difference

\* the values an indicator takes in the samples
C17_Values(samples) == {x[1] : x \in samples \ {<<>>}}

\* C17: for a fixed polygon with satellite indicators supplied, the UHI
\* intensity is non-increasing in each of ndvi, albedo and
\* vegetation_density, and for (ndvi, albedo, vegetation_density) =
\* (0.1, 0.1, 0.1) it is strictly greater than for (0.8, 0.6, 0.7)
C17_MonotoneInIndicators ==
    pc = "done" /\ DOMAIN SuppliedIndicators = {"ndvi", "vegetation_density", "albedo"} =>
        LET ndvi == SuppliedIndicators["ndvi"]
            vegetation_density == SuppliedIndicators["vegetation_density"]
            albedo == SuppliedIndicators["albedo"]
            intensity == ReturnedIntensity.temperature_difference
        IN  /\ \A higher \in C17_Values(NdviSamples) :
                  higher >= ndvi =>
                      C17_Intensity(higher, vegetation_density, albedo) <= intensity
            /\ \A higher \in C17_Values(VegetationDensitySamples) :
                  higher >= vegetation_density =>
                      C17_Intensity(ndvi, higher, albedo) <= intensity
            /\ \A higher \in C17_Values(AlbedoSamples) :
                  higher >= albedo =>
                      C17_Intensity(ndvi, vegetation_density, higher) <= intensity
            /\ (ndvi = 10 /\ albedo = 10 /\ vegetation_density = 10) =>
                  intensity > C17_Intensity(80, 70, 60)

\* C17 witness: the 0.01 degree square analysed with all three indicators at
\* 0.1 has intensity 5.57; with (0.8, 0.6, 0.7) it has 3.77
C17_Witness ==
    /\ pc = "done"
    /\ response.op = "comprehensive_uhi_analysis"
    /\ request.coordinates = UnitSquare
    /\ request.alphaearth_data = SatelliteData(<<10>>, <<10>>, <<10>>)
    /\ ReturnedIntensity.temperature_difference = 557
    /\ C17_Intensity(80, 70, 60) = 377

(***************************************************************************)
(* The predict operations of the three predictors and of the aggregator.   *)
(* Fractions and confidence levels are in hundredths, the slope and the    *)
(* wind speed in tenths (of a degree, of a m/s), the AQI in tenths.        *)
(***************************************************************************)
\* set by _load_model in the constructor, which cannot fail
model_loaded == TRUE

\* ---- heat_island_predictor.py ----
Heat_extract_features(input_data) ==
    [base_temperature |-> Get(input_data, "base_temperature", 2500),
     building_density |-> Get(input_data, "building_density", 50),
     vegetation_cover |-> Get(input_data, "vegetation_cover", 30),
     albedo |-> Get(input_data, "albedo", 30),
     area_km2 |-> Get(input_data, "area_km2", 10000),
     population_density |-> Get(input_data, "population_density", 1000)]

\* denominator of the unrounded temperature increase of predict
HeatPredictDen == 100000

\* a 10% margin around the prediction
Heat_calculate_confidence_intervals_narrow(prediction, confidence_level) ==
    [lower_bound |-> Round(9 * prediction, 10 * (HeatPredictDen \div 100)),
     upper_bound |-> Round(11 * prediction, 10 * (HeatPredictDen \div 100)),
     confidence_level |-> confidence_level]

\* margin = prediction * 0.2; the bounds rounded to 2 decimals; prediction
\* over HeatPredictDen
Heat_calculate_confidence_intervals(prediction, confidence_level) ==
    [lower_bound |-> Round(8 * prediction, 10 * (HeatPredictDen \div 100)),
     upper_bound |-> Round(12 * prediction, 10 * (HeatPredictDen \div 100)),
     confidence_level |-> confidence_level]

\* (building_density * 2.0 + (1 - vegetation_cover) * 1.5
\*  + (1 - albedo) * 1.0) * (horizon / 10.0), over HeatPredictDen
Heat_predict_temperature(features, horizon) ==
    (200 * features.building_density
     + 150 * (100 - features.vegetation_cover)
     + 100 * (100 - features.albedo)) * horizon

Heat_predict(input_data, horizon, confidence_level) ==
    IF ~model_loaded
    THEN [status |-> "raised", error |-> "Exception", raised_by |-> "predict"]
    ELSE
    LET features == Heat_extract_features(input_data)
        temperature_increase == Heat_predict_temperature(features, horizon)
        confidence_intervals ==
            Heat_calculate_confidence_intervals(temperature_increase,
                                                confidence_level)
    IN  [status |-> "ok",
         predictions |->
            [temperature_increase |->
                 Round(temperature_increase, HeatPredictDen \div 100),
             heat_risk_score |->
                 Round(temperature_increase, 5 * (HeatPredictDen \div 1000)),
             affected_area |-> features.area_km2],
         confidence_intervals |-> confidence_intervals,
         metadata |-> [model_version |-> "v1.0",
                       horizon |-> horizon,
                       confidence_level |-> confidence_level]]

\* ---- water_absorption_predictor.py ----
Water_extract_features(input_data) ==
    [soil_type |-> Get(input_data, "soil_type", 50),
     slope |-> Get(input_data, "slope", 1),
     impervious_surface |-> Get(input_data, "impervious_surface", 30),
     drainage_infrastructure |-> Get(input_data, "drainage_infrastructure", 50),
     area_km2 |-> Get(input_data, "area_km2", 10000),
     precipitation |-> Get(input_data, "precipitation", 1000)]

\* denominator of the unrounded absorption rate of predict
WaterPredictDen == 9000

\* margin = prediction * 0.15; the bounds rounded to 3 decimals; prediction
\* over WaterPredictDen
Water_calculate_confidence_intervals(prediction, confidence_level) ==
    [lower_bound |-> Round(85 * prediction, WaterPredictDen \div 10),
     upper_bound |-> Round(115 * prediction, WaterPredictDen \div 10),
     confidence_level |-> confidence_level]

\* (1 - soil_type) * 0.4 + (1 - impervious_surface) * 0.3
\* + drainage_infrastructure * 0.2 + (1 - slope / 45.0) * 0.1, over
\* WaterPredictDen
Water_predict_absorption_rate(features) ==
    36 * (100 - features.soil_type)
    + 27 * (100 - features.impervious_surface)
    + 18 * features.drainage_infrastructure
    + 2 * (450 - features.slope)

Water_predict(input_data, horizon, confidence_level) ==
    IF ~model_loaded
    THEN [status |-> "raised", error |-> "Exception", raised_by |-> "predict"]
    ELSE
    LET features == Water_extract_features(input_data)
        absorption_rate == Water_predict_absorption_rate(features)
        confidence_intervals ==
            Water_calculate_confidence_intervals(absorption_rate,
                                                 confidence_level)
    IN  [status |-> "ok",
         predictions |->
            [absorption_rate |-> Round(absorption_rate, WaterPredictDen \div 1000),
             flood_risk_score |->
                 Round(WaterPredictDen - absorption_rate, WaterPredictDen \div 1000),
             drainage_efficiency |->
                 Round(absorption_rate * features.drainage_infrastructure,
                       WaterPredictDen \div 10)],
         confidence_intervals |-> confidence_intervals,
         metadata |-> [model_version |-> "v1.0",
                       horizon |-> horizon,
                       confidence_level |-> confidence_level]]

\* ---- air_quality_predictor.py ----
Air_extract_features(input_data) ==
    [traffic_density |-> Get(input_data, "traffic_density", 50),
     industrial_zones |-> Get(input_data, "industrial_zones", 20),
     vegetation_cover |-> Get(input_data, "vegetation_cover", 30),
     wind_speed |-> Get(input_data, "wind_speed", 30),
     area_km2 |-> Get(input_data, "area_km2", 10000),
     population_density |-> Get(input_data, "population_density", 1000)]

\* margin = prediction * 0.1; the bounds rounded to 1 decimal; prediction
\* in tenths
Air_calculate_confidence_intervals(prediction, confidence_level) ==
    [lower_bound |-> Round(9 * prediction, 10),
     upper_bound |-> Round(11 * prediction, 10),
     confidence_level |-> confidence_level]

\* 50 + traffic * 30 + industrial * 40 - vegetation * 20
\* - min(wind_speed / 5, 1) * 15, clamped to [0, 500], in tenths
Air_predict_aqi(features) ==
    Max(0, Min(5000, 500 + 3 * features.traffic_density
                     + 4 * features.industrial_zones
                     - 2 * features.vegetation_cover
                     - 3 * Min(features.wind_speed, 50)))

Air_predict(input_data, horizon, confidence_level) ==
    IF ~model_loaded
    THEN [status |-> "raised", error |-> "Exception", raised_by |-> "predict"]
    ELSE
    LET features == Air_extract_features(input_data)
        predicted_aqi == Air_predict_aqi(features)
        confidence_intervals ==
            Air_calculate_confidence_intervals(predicted_aqi, confidence_level)
    IN  [status |-> "ok",
         predictions |->
            [air_quality_index |-> predicted_aqi,
             air_quality_risk_score |-> Round(predicted_aqi, 5),
             pm2_5 |-> Round(8 * predicted_aqi, 10),
             no2 |-> Round(6 * predicted_aqi, 10),
             o3 |-> Round(7 * predicted_aqi, 10)],
         confidence_intervals |-> confidence_intervals,
         metadata |-> [model_version |-> "v1.0",
                       horizon |-> horizon,
                       confidence_level |-> confidence_level]]

\* ---- utils/validators.py ----
\* 0.5 <= confidence_level <= 0.99; no predict operation calls it
validate_confidence_level(confidence_level) ==
    50 <= confidence_level /\ confidence_level <= 99

\* ---- environmental_predictor.py ----
Env_comprehensive_prediction(input_data, horizon, confidence_level) ==
    LET heat_predictions == Heat_predict(input_data, horizon, confidence_level)
        water_predictions == Water_predict(input_data, horizon, confidence_level)
        air_predictions == Air_predict(input_data, horizon, confidence_level)
    IN  IF Raised(heat_predictions) THEN heat_predictions
        ELSE IF Raised(water_predictions) THEN water_predictions
        ELSE IF Raised(air_predictions) THEN air_predictions
        ELSE [status |-> "ok",
              predictions |->
                 [heat_island |-> heat_predictions.predictions,
                  water_absorption |-> water_predictions.predictions,
                  air_quality |-> air_predictions.predictions],
              confidence_intervals |->
                 [heat_island |-> heat_predictions.confidence_intervals,
                  water_absorption |-> water_predictions.confidence_intervals,
                  air_quality |-> air_predictions.confidence_intervals],
              metadata |->
                 [horizon |-> horizon,
                  confidence_level |-> confidence_level,
                  model_versions |-> [heat_island |-> "v1.0",
                                      water_absorption |-> "v1.0",
                                      air_quality |-> "v1.0"]]]

(***************************************************************************)
(* SpecPredict: one predict operation on a feature bag                     *)
(***************************************************************************)
\* the features each predictor reads from the bag
HeatFeatures == {"building_density", "vegetation_cover", "albedo"}

WaterFeatures == {"soil_type", "slope", "impervious_surface",
                  "drainage_infrastructure"}

AirFeatures == {"traffic_density", "industrial_zones", "vegetation_cover",
                "wind_speed"}

\* the ends of each feature's range: fractions 0 and 1, slope 0 and 45
\* degrees, wind speed 0 and 10 m/s; a building density of 0.01 and a slope
\* of 44.9 degrees give point estimates below the reported precision
FeatureValues(feature) ==
    IF feature = "slope" THEN {0, 449, 450}
    ELSE IF feature = "wind_speed" THEN {0, 100}
    ELSE IF feature = "building_density" THEN {0, 1, 100}
    ELSE {0, 100}

\* the bags supplying any subset of one predictor's features; a feature
\* that is not supplied takes the default of _extract_features
FeatureBags ==
    UNION {{bag \in [keys -> {0, 1, 100, 449, 450}] :
               \A k \in keys : bag[k] \in FeatureValues(k)} :
           keys \in SUBSET HeatFeatures \cup SUBSET WaterFeatures
                    \cup SUBSET AirFeatures}

\* prediction horizons in years, the ends and the default of 1..50
PredictHorizons == {1, 10, 50}

\* confidence levels in hundredths: 0.3 and 1.0 lie outside [0.5, 0.99]
ConfidenceLevels == {30, 50, 95, 99, 100}

InitPredict ==
    /\ request \in [input_data : FeatureBags,
                    horizon : PredictHorizons,
                    confidence_level : ConfidenceLevels]
    /\ lake = None
    /\ pc = "idle"
    /\ response = None

HeatPredict ==
    /\ pc = "idle"
    /\ response' = [op |-> "heat_predict",
                    out |-> Heat_predict(request.input_data, request.horizon,
                                         request.confidence_level)]
    /\ pc' = "done"
    /\ UNCHANGED <<request, lake>>

WaterPredict ==
    /\ pc = "idle"
    /\ response' = [op |-> "water_predict",
                    out |-> Water_predict(request.input_data, request.horizon,
                                          request.confidence_level)]
    /\ pc' = "done"
    /\ UNCHANGED <<request, lake>>

AirPredict ==
    /\ pc = "idle"
    /\ response' = [op |-> "air_predict",
                    out |-> Air_predict(request.input_data, request.horizon,
                                        request.confidence_level)]
    /\ pc' = "done"
    /\ UNCHANGED <<request, lake>>

ComprehensivePrediction ==
    /\ pc = "idle"
    /\ response' = [op |-> "comprehensive_prediction",
                    out |-> Env_comprehensive_prediction(
                                request.input_data, request.horizon,
                                request.confidence_level)]
    /\ pc' = "done"
    /\ UNCHANGED <<request, lake>>

NextPredict ==
    \/ HeatPredict
    \/ WaterPredict
    \/ AirPredict
    \/ ComprehensivePrediction

SpecPredict == InitPredict /\ [][NextPredict]_vars

(***************************************************************************)
(* Claims on the predict operations (SpecPredict)                          *)
(***************************************************************************)
\* the predictions and the interval of one domain in the returned result
HeatPredictions ==
    IF response.op = "heat_predict" THEN response.out.predictions
    ELSE response.out.predictions.heat_island

WaterPredictions ==
    IF response.op = "water_predict" THEN response.out.predictions
    ELSE response.out.predictions.water_absorption

AirPredictions ==
    IF response.op = "air_predict" THEN response.out.predictions
    ELSE response.out.predictions.air_quality

\* the operation returned a prediction of the domain
PredictedHeat ==
    pc = "done" /\ response.op \in {"heat_predict", "comprehensive_prediction"}
    /\ ~Raised(response.out)

PredictedWater ==
    pc = "done" /\ response.op \in {"water_predict", "comprehensive_prediction"}
    /\ ~Raised(response.out)

PredictedAir ==
    pc = "done" /\ response.op \in {"air_predict", "comprehensive_prediction"}
    /\ ~Raised(response.out)

\* C18: for every feature bag within the documented ranges and every horizon
\* in 1..50 the risk score returned by each predictor's predict
\* (heat_risk_score, flood_risk_score, air_quality_risk_score) lies in [0, 1]
C18_PredictRiskScoreInUnitInterval ==
    /\ PredictedHeat => HeatPredictions.heat_risk_score \in 0..1000
    /\ PredictedWater => WaterPredictions.flood_risk_score \in 0..1000
    /\ PredictedAir => AirPredictions.air_quality_risk_score \in 0..1000

\* the same statement for the water and the air predictor alone
C18_WaterAndAirRiskScoreInUnitInterval ==
    /\ PredictedWater => WaterPredictions.flood_risk_score \in 0..1000
    /\ PredictedAir => AirPredictions.air_quality_risk_score \in 0..1000

\* the empty feature bag at horizon 50: a temperature increase of 13.75 and
\* a heat_risk_score of 2.75
C18_HeatScoreAboveOneReached ==
    /\ PredictedHeat
    /\ response.op = "heat_predict"
    /\ request.input_data = EmptyDict
    /\ request.horizon = 50
    /\ HeatPredictions.temperature_increase = 1375
    /\ HeatPredictions.heat_risk_score = 2750

\* the flood_risk_score reaches 1: clay soil, fully impervious, no drainage,
\* slope 45
C18_FloodScoreOneReached ==
    /\ PredictedWater
    /\ response.op = "water_predict"
    /\ WaterPredictions.absorption_rate = 0
    /\ WaterPredictions.flood_risk_score = 1000

\* the confidence interval of one domain in the returned result
HeatInterval ==
    IF response.op = "heat_predict" THEN response.out.confidence_intervals
    ELSE response.out.confidence_intervals.heat_island

WaterInterval ==
    IF response.op = "water_predict" THEN response.out.confidence_intervals
    ELSE response.out.confidence_intervals.water_absorption

AirInterval ==
    IF response.op = "air_predict" THEN response.out.confidence_intervals
    ELSE response.out.confidence_intervals.air_quality

\* the unrounded point estimates of the request: temperature increase over
\* HeatPredictDen, absorption rate over WaterPredictDen, AQI in tenths
C19_HeatEstimate ==
    Heat_predict_temperature(Heat_extract_features(request.input_data),
                             request.horizon)

C19_WaterEstimate ==
    Water_predict_absorption_rate(Water_extract_features(request.input_data))

C19_AirEstimate == Air_predict_aqi(Air_extract_features(request.input_data))

\* C19: for every predict call the confidence interval is p - m*p and
\* p + m*p around the point estimate p, with m = 20% (heat), 15% (water) and
\* 10% (air), reported at the precision of the prediction (2, 3 and 1
\* decimals); the supplied confidence_level is returned unchanged and
\* lower_bound <= p <= upper_bound for the reported estimate
C19_SymmetricMargin ==
    /\ PredictedHeat =>
          /\ HeatInterval.lower_bound
                 = Round((100 - 20) * C19_HeatEstimate, HeatPredictDen)
          /\ HeatInterval.upper_bound
                 = Round((100 + 20) * C19_HeatEstimate, HeatPredictDen)
          /\ HeatInterval.confidence_level = request.confidence_level
          /\ HeatInterval.lower_bound <= HeatPredictions.temperature_increase
          /\ HeatPredictions.temperature_increase <= HeatInterval.upper_bound
    /\ PredictedWater =>
          /\ WaterInterval.lower_bound
                 = Round((100 - 15) * C19_WaterEstimate, WaterPredictDen \div 10)
          /\ WaterInterval.upper_bound
                 = Round((100 + 15) * C19_WaterEstimate, WaterPredictDen \div 10)
          /\ WaterInterval.confidence_level = request.confidence_level
          /\ WaterInterval.lower_bound <= WaterPredictions.absorption_rate
          /\ WaterPredictions.absorption_rate <= WaterInterval.upper_bound
    /\ PredictedAir =>
          /\ AirInterval.lower_bound = Round((100 - 10) * C19_AirEstimate, 100)
          /\ AirInterval.upper_bound = Round((100 + 10) * C19_AirEstimate, 100)
          /\ AirInterval.confidence_level = request.confidence_level
          /\ AirInterval.lower_bound <= AirPredictions.air_quality_index
          /\ AirPredictions.air_quality_index <= AirInterval.upper_bound

\* C19 witness: comprehensive_prediction on the empty bag, horizon 10, level
\* 0.95: 2.75 in [2.2, 3.3], 0.61 in [0.518, 0.701], 58.0 in [52.2, 63.8]
C19_Witness ==
    /\ PredictedHeat
    /\ response.op = "comprehensive_prediction"
    /\ request.confidence_level = 95
    /\ HeatPredictions.temperature_increase = 275
    /\ HeatInterval = [lower_bound |-> 220, upper_bound |-> 330,
                       confidence_level |-> 95]
    /\ WaterPredictions.absorption_rate = 610
    /\ WaterInterval = [lower_bound |-> 518, upper_bound |-> 701,
                        confidence_level |-> 95]
    /\ AirPredictions.air_quality_index = 580
    /\ AirInterval = [lower_bound |-> 522, upper_bound |-> 638,
                      confidence_level |-> 95]

\* C20: a predict call on any domain predictor, or comprehensive_prediction,
\* with a confidence_level outside [0.5, 0.99] fails with a validation error
\* and returns no prediction and no confidence interval
C20_InvalidConfidenceLevelRejected ==
    pc = "done" /\ ~validate_confidence_level(request.confidence_level) =>
        Raised(response.out)

\* heat predict at confidence_level 1.0 returns a prediction and an interval
\* carrying the level 1.0
C20_InvalidLevelAccepted ==
    /\ pc = "done"
    /\ response.op = "heat_predict"
    /\ request.input_data = EmptyDict
    /\ request.horizon = 10
    /\ request.confidence_level = 100
    /\ ~Raised(response.out)
    /\ HeatPredictions.temperature_increase = 275
    /\ HeatInterval.confidence_level = 100

(***************************************************************************)
(* SpecGeometry: the geometry routines and the analyses on polygons that   *)
(* include malformed ones                                                  *)
(***************************************************************************)
\* the 0.01 degree square moved to the edge of the latitude range (the
\* vertices at 90.01 are outside it) and of the longitude range (the
\* vertices at 180.01 are outside it)
PolarVertices == {<<0, 9000>>, <<1, 9000>>, <<1, 9001>>, <<0, 9001>>}

DatelineVertices == {<<18000, 0>>, <<18001, 0>>, <<18001, 1>>, <<18000, 1>>}

\* vertex lists of 0 to MaxVertices points: those of SpecUHI, and those on
\* the edges of the coordinate range
GeometryPolygons ==
    UhiPolygons
    \cup UNION {{s \in [1..n -> PolarVertices] : IsInjective(s)} : n \in 0..MaxVertices}
    \cup UNION {{s \in [1..n -> DatelineVertices] : IsInjective(s)} : n \in 0..MaxVertices}

GeometryHorizons == {MinHorizon, 10, MaxHorizon}

InitGeometry ==
    /\ request \in [coordinates : GeometryPolygons, time_horizon : GeometryHorizons]
    /\ lake = None
    /\ pc = "idle"
    /\ response = None

\* GeospatialProcessor.validate_coordinates(coordinates)
ValidateCoordinates ==
    /\ pc = "idle"
    /\ response' = [op |-> "validate_coordinates",
                    out |-> [status |-> "ok",
                             valid |-> ValidPolygon(request.coordinates)]]
    /\ pc' = "done"
    /\ UNCHANGED <<request, lake>>

\* HeatIslandPredictor._calculate_area(coordinates)
HeatCalculateArea ==
    /\ pc = "idle"
    /\ response' = [op |-> "heat_calculate_area",
                    out |-> [status |-> "ok",
                             area_km2 |-> Heat_calculate_area(request.coordinates)]]
    /\ pc' = "done"
    /\ UNCHANGED <<request, lake>>

\* UrbanHeatIslandAnalyzer._calculate_area(coordinates)
UhiCalculateArea ==
    /\ pc = "idle"
    /\ response' = [op |-> "uhi_calculate_area",
                    out |-> [status |-> "ok",
                             area_km2 |-> Uhi_calculate_area(request.coordinates)]]
    /\ pc' = "done"
    /\ UNCHANGED <<request, lake>>

NextGeometry ==
    \/ ValidateCoordinates
    \/ HeatCalculateArea
    \/ UhiCalculateArea
    \/ AnalyzeHeatIslandEffect
    \/ AnalyzeWaterAbsorption
    \/ AnalyzeAirQualityImpact
    \/ ComprehensiveUhiAnalysis

SpecGeometry == InitGeometry /\ [][NextGeometry]_vars

(***************************************************************************)
(* Claims on the geometry (SpecGeometry)                                   *)
(***************************************************************************)
\* the operations that derive an area from the polygon
AreaOperations ==
    {"heat_calculate_area", "uhi_calculate_area", "analyze_heat_island_effect",
     "analyze_water_absorption", "analyze_air_quality_impact",
     "comprehensive_uhi_analysis"}

\* C21: for a polygon with fewer than 3 points, or with a point outside the
\* longitude or latitude range, the geometry routine and every operation
\* that derives an area from the polygon end in an invalid-geometry error;
\* no result is computed from the malformed polygon
C21_MalformedPolygonRejected ==
    pc = "done" /\ response.op \in AreaOperations
    /\ ~ValidPolygon(request.coordinates) =>
        Raised(response.out)

\* a heat analysis of two points returns area 0 and a risk score
C21_TwoPointsAnalysed ==
    /\ Returned("analyze_heat_island_effect")
    /\ request.coordinates = <<<<0, 0>>, <<1, 1>>>>
    /\ response.out.status = "ok"
    /\ response.out.affected_area_km2 = 0
    /\ response.out.heat_risk_score = 0

\* the area routine returns 0.62 km2 for a triangle with a vertex at
\* latitude 90.01
C21_OutOfRangeAreaComputed ==
    /\ Returned("heat_calculate_area")
    /\ request.coordinates = <<<<0, 9000>>, <<1, 9000>>, <<1, 9001>>>>
    /\ ~ValidPolygon(request.coordinates)
    /\ response.out.area_km2 = 6196

\* validate_coordinates itself answers False for every malformed polygon
C21_ValidatorRejects ==
    Returned("validate_coordinates") =>
        (response.out.valid <=>
            /\ Len(request.coordinates) >= 3
            /\ \A i \in DOMAIN request.coordinates :
                  /\ request.coordinates[i][1] \in -18000..18000
                  /\ request.coordinates[i][2] \in -9000..9000)

\* the vertex list in the opposite order, and started k vertices later
Reversed(coordinates) ==
    [i \in 1..Len(coordinates) |-> coordinates[Len(coordinates) + 1 - i]]

Rotated(coordinates, k) ==
    [i \in 1..Len(coordinates) |-> coordinates[((i - 1 + k) % Len(coordinates)) + 1]]

C22_AreaOf(op, coordinates) ==
    IF op = "heat_calculate_area" THEN Heat_calculate_area(coordinates)
    ELSE Uhi_calculate_area(coordinates)

\* C22: for every vertex list the shoelace area is at least 0, is the same
\* for the list and for its reversal, and is the same for every rotation of
\* the list
C22_AreaNonNegativeAndOrderIndependent ==
    pc = "done" /\ response.op \in {"heat_calculate_area", "uhi_calculate_area"} =>
        /\ response.out.area_km2 >= 0
        /\ C22_AreaOf(response.op, Reversed(request.coordinates)) = response.out.area_km2
        /\ \A k \in 0..Len(request.coordinates) :
              C22_AreaOf(response.op, Rotated(request.coordinates, k))
                  = response.out.area_km2

\* a clockwise triangle of 4.96 km2: its signed shoelace sum is negative,
\* and its reversal is a different list
C22_Witness ==
    /\ Returned("heat_calculate_area")
    /\ request.coordinates = <<<<4, 8>>, <<1, 0>>, <<0, 0>>>>
    /\ ShoelaceSum(request.coordinates, 1) < 0
    /\ Reversed(request.coordinates) # request.coordinates
    /\ Rotated(request.coordinates, 1) # request.coordinates
    /\ response.out.area_km2 = 49568

(***************************************************************************)
(* Claims on the per-domain results (SpecDomain), continued                *)
(***************************************************************************)
\* validate_area_bounds: the polygon is within the 100 km2 limit
C23_WithinAreaLimit == Heat_calculate_area(request.coordinates) <= 1000000

C23_HeatChangeIsDifference ==
    Returned("analyze_heat_island_effect") /\ C23_WithinAreaLimit =>
        response.out.temperature_increase
            = response.out.predicted_temperature - response.out.current_temperature

C23_WaterChangeIsDifference ==
    Returned("analyze_water_absorption") /\ C23_WithinAreaLimit =>
        response.out.absorption_rate_change
            = response.out.predicted_absorption_rate
              - response.out.current_absorption_rate

C23_AirChangeIsDifference ==
    Returned("analyze_air_quality_impact") /\ C23_WithinAreaLimit =>
        response.out.aqi_change
            = response.out.predicted_air_quality_index
              - response.out.current_air_quality_index

\* C23: in every per-domain analyze result the reported change equals the
\* reported predicted value minus the reported current value
\* (temperature_increase, absorption_rate_change, aqi_change), for every
\* polygon within 100 km2 and every time horizon from 1 to 50
C23_ChangeIsPredictedMinusCurrent ==
    /\ C23_HeatChangeIsDifference
    /\ C23_WaterChangeIsDifference
    /\ C23_AirChangeIsDifference

\* the 37.18 km2 triangle at horizon 50: the change is -1.0 while the
\* predicted rate is clamped to 0.0, 0.6 below the current rate
C23_ClampedAbsorptionReached ==
    /\ Returned("analyze_water_absorption")
    /\ request = [coordinates |-> <<<<0, 0>>, <<0, 1>>, <<60, 180>>>>,
                  time_horizon |-> 50]
    /\ response.out.affected_area_km2 = 3718
    /\ response.out.absorption_rate_change = -1000
    /\ response.out.predicted_absorption_rate = 0
    /\ response.out.current_absorption_rate = 600

(***************************************************************************)
(* SpecRepeat: one analysis run twice on the same inputs.  The data lake   *)
(* is state outside the inputs, other jobs write to it; every run reads    *)
(* the clock for analysis_metadata.analysis_date.  response is the list of *)
(* the results returned so far.                                            *)
(***************************************************************************)
RepeatedOperations ==
    {"analyze_heat_island_effect", "analyze_water_absorption",
     "analyze_air_quality_impact", "comprehensive_analysis",
     "comprehensive_uhi_analysis"}

\* the indicators of the triple: none, a full satellite row, an ndvi alone
RepeatIndicators ==
    {EmptyDict, SatelliteData(<<50>>, <<40>>, <<30>>), SatelliteData(<<10>>, <<>>, <<>>)}

RepeatHorizons == {1, 10}

\* instants of datetime.now()
Instants == 0..2

InitRepeat ==
    /\ request \in [op : RepeatedOperations,
                    coordinates : IndicatorPolygons,
                    alphaearth_data : RepeatIndicators,
                    time_horizon : RepeatHorizons]
    /\ lake \in LakeStates
    /\ pc = "idle"
    /\ response = <<>>

\* the clock does not run backwards
Now(t) == t \in Instants /\ (response # <<>> => t >= response[Len(response)].analysis_date)

\* the result of a run joins the list; the second run ends the experiment
Ran(out, t) ==
    /\ response' = Append(response, [out |-> out, analysis_date |-> t])
    /\ pc' = IF pc = "idle" THEN "once" ELSE "done"
    /\ UNCHANGED <<request, lake>>

RunHeat ==
    /\ pc \in {"idle", "once"}
    /\ request.op = "analyze_heat_island_effect"
    /\ \E t \in Instants :
          /\ Now(t)
          /\ Ran(Heat_analyze_heat_island_effect(request.coordinates,
                                                 request.time_horizon), t)

RunWater ==
    /\ pc \in {"idle", "once"}
    /\ request.op = "analyze_water_absorption"
    /\ \E t \in Instants :
          /\ Now(t)
          /\ Ran(Water_analyze_water_absorption(request.coordinates,
                                                request.time_horizon), t)

RunAir ==
    /\ pc \in {"idle", "once"}
    /\ request.op = "analyze_air_quality_impact"
    /\ \E t \in Instants :
          /\ Now(t)
          /\ Ran(Air_analyze_air_quality_impact(request.coordinates,
                                                request.time_horizon), t)

\* comprehensive_analysis has no indicators parameter, it reads the lake
RunComprehensive ==
    /\ pc \in {"idle", "once"}
    /\ request.op = "comprehensive_analysis"
    /\ \E t \in Instants :
          /\ Now(t)
          /\ Ran(Env_comprehensive_analysis(request.coordinates,
                                            request.time_horizon, lake), t)

\* comprehensive_uhi_analysis reads the lake when it is given no indicators
RunUhi ==
    /\ pc \in {"idle", "once"}
    /\ request.op = "comprehensive_uhi_analysis"
    /\ \E t \in Instants :
          /\ Now(t)
          /\ Ran(Uhi_comprehensive_uhi_analysis(request.coordinates, 10,
                                                request.alphaearth_data, lake), t)

\* between the two runs another job changes what the lake answers
LakeWrite ==
    /\ pc = "once"
    /\ lake' \in LakeStates \ {lake}
    /\ UNCHANGED <<request, pc, response>>

NextRepeat ==
    \/ RunHeat
    \/ RunWater
    \/ RunAir
    \/ RunComprehensive
    \/ RunUhi
    \/ LakeWrite

SpecRepeat == InitRepeat /\ [][NextRepeat]_vars

(***************************************************************************)
(* Claims on reproducibility (SpecRepeat)                                  *)
(***************************************************************************)
\* C24: two runs of the same analysis with the same polygon, indicators and
\* horizon produce identical results, whenever they run and whatever the
\* state outside the three inputs is
C24_TwoRunsIdentical ==
    pc = "done" => response[1] = response[2]

\* apart from analysis_date the domain analyses depend on the polygon and
\* the horizon alone, and the UHI analysis with supplied indicators on the
\* polygon and the indicators alone
C24_InputsDetermineValues ==
    (/\ pc = "done"
     /\ \/ request.op \in {"analyze_heat_island_effect", "analyze_water_absorption",
                           "analyze_air_quality_impact", "comprehensive_analysis"}
        \/ /\ request.op = "comprehensive_uhi_analysis"
           /\ request.alphaearth_data # EmptyDict)
    => response[1].out = response[2].out

\* two runs at the same instant on the unit square without indicators: the
\* lake answered a satellite row for one of them and no row for the other,
\* the intensities differ
C24_LakeChangesUhiResult ==
    /\ pc = "done"
    /\ request.op = "comprehensive_uhi_analysis"
    /\ request.coordinates = UnitSquare
    /\ request.alphaearth_data = EmptyDict
    /\ response[1].analysis_date = response[2].analysis_date
    /\ response[1].out.status = "ok" /\ response[2].out.status = "ok"
    /\ response[1].out.uhi_intensity # response[2].out.uhi_intensity

\* two heat analyses of the unit square differ in analysis_date alone
C24_DateDiffers ==
    /\ pc = "done"
    /\ request.op = "analyze_heat_island_effect"
    /\ response[1].out = response[2].out
    /\ response[1].analysis_date < response[2].analysis_date

(***************************************************************************)
(* The end-to-end scenario of the 0.01 degree square (SpecDomain)          *)
(***************************************************************************)
C25_Scenario ==
    /\ Returned("analyze_heat_island_effect")
    /\ request = [coordinates |-> UnitSquare, time_horizon |-> 10]

\* C25 as stated: for the 0.01 x 0.01 degree square with time horizon 10
\* the heat_risk_score is about 0.3 * 0.124 + 0.7 * 0.0248 = 0.0546 (within
\* 0.005 of it, in thousandths) and the level is "Low" or "Very Low"
C25_ScoreAsStated ==
    C25_Scenario =>
        /\ response.out.heat_risk_score \in 50..60
        /\ response.out.heat_risk_level \in {"Low", "Very Low"}

\* C25: for the 0.01 x 0.01 degree square (1.24 km2) with time horizon 10
\* the temperature increase is 0.12, the heat_risk_score is
\* 0.7 * 0.0248 + 0.3 * 0.0124 = 0.021 and the level is "Very Low"
C25_ScoreOfUnitSquare ==
    C25_Scenario =>
        /\ response.out.affected_area_km2 = 124
        /\ response.out.temperature_increase = 12
        /\ response.out.heat_risk_score = 21
        /\ response.out.heat_risk_level = "Very Low"

C25_Witness ==
    /\ C25_Scenario
    /\ response.out.status = "ok"
    /\ response.out.heat_risk_score = 21

(***************************************************************************)
(* Claims on the severity of the intensity (SpecIndicators)                *)
(***************************************************************************)
\* the bucket of a temperature difference in hundredths of a degree
C26_Bucket(temperature_difference) ==
    IF temperature_difference >= 500 THEN "Extreme"
    ELSE IF temperature_difference >= 300 THEN "High"
    ELSE IF temperature_difference >= 150 THEN "Moderate"
    ELSE "Low"

\* C26: in every UHI intensity result the reported severity is the bucket
\* of the reported temperature_difference (Extreme from 5.0, High from 3.0,
\* Moderate from 1.5, else Low)
C26_SeverityIsBucketOfReportedDifference ==
    pc = "done" =>
        ReturnedIntensity.severity
            = C26_Bucket(ReturnedIntensity.temperature_difference)

\* the 0.62 km2 triangle with ndvi 0.49, vegetation_density 0.1 and albedo
\* 0.1: the intensity 4.99588 is reported as 5.0 with severity "High"
C26_RoundedAcrossThreshold ==
    /\ pc = "done"
    /\ response.op = "calculate_uhi_intensity"
    /\ request.coordinates = <<<<0, 0>>, <<1, 0>>, <<1, 1>>>>
    /\ request.alphaearth_data = SatelliteData(<<49>>, <<10>>, <<10>>)
    /\ response.out.temperature_difference = 500
    /\ response.out.severity = "High"

(***************************************************************************)
(* The API routes POST /environmental-impact and POST                      *)
(* /comprehensive-analysis                                                 *)
(***************************************************************************)
\* raise HTTPException(status_code=..., detail=...); invoked names the
\* predictor and analyzer operations called before the exception
HTTPException(status_code, detail, invoked) ==
    [status |-> "raised", error |-> "HTTPException", status_code |-> status_code,
     detail |-> detail, invoked |-> invoked]

\* except Exception as e: raise HTTPException(status_code=500,
\* detail=f"{prefix}: {str(e)}"); an HTTPException raised in the try block is
\* an Exception and is caught too
Route_except(prefix, r) ==
    IF Raised(r)
    THEN [status |-> "raised", error |-> "HTTPException", status_code |-> 500,
          detail |-> prefix, cause |-> r,
          invoked |-> r.invoked]
    ELSE r

\* GeospatialProcessor.calculate_area_km2: the area of the polygon projected
\* to its UTM zone; near the equator the projected area is within 1 percent
\* of the planar area the predictors compute
Geo_calculate_area_km2(coordinates) ==
    DegreesToArea4(Abs(ShoelaceSum(coordinates, 1)))

\* validate_area_bounds(coordinates, max_area_km2=100.0)
validate_area_bounds(coordinates) ==
    Geo_calculate_area_km2(coordinates) <= 1000000

\* the response of POST /environmental-impact once the analysis returned
Route_environmental_response(req, results, invoked) ==
    IF Raised(results)
    THEN [status |-> "raised", error |-> results.error,
          raised_by |-> results.raised_by, invoked |-> invoked]
    ELSE [status |-> "completed",
          results |-> results,
          recommendations |->
              IF req.include_recommendations
              THEN <<Env_generate_recommendations(results, req.analysis_type)>>
              ELSE <<>>,
          metadata |-> [analysis_type |-> req.analysis_type,
                        time_horizon |-> req.time_horizon,
                        area_coordinates |-> req.coordinates],
          invoked |-> invoked]

\* the try block of analyze_environmental_impact
Route_environmental_impact_try(req, lk) ==
    IF ~ValidPolygon(req.coordinates)
    THEN HTTPException(400, "Invalid coordinates provided", {})
    ELSE IF ~validate_area_bounds(req.coordinates)
    THEN HTTPException(400, "Analysis area too large. Maximum 100 km2 allowed", {})
    ELSE IF req.analysis_type = "heat_island"
    THEN Route_environmental_response(req,
             Env_analyze_heat_island_effect(req.coordinates, req.time_horizon),
             {"analyze_heat_island_effect"})
    ELSE IF req.analysis_type = "water_absorption"
    THEN Route_environmental_response(req,
             Env_analyze_water_absorption(req.coordinates, req.time_horizon),
             {"analyze_water_absorption"})
    ELSE IF req.analysis_type = "air_quality"
    THEN Route_environmental_response(req,
             Env_analyze_air_quality_impact(req.coordinates, req.time_horizon),
             {"analyze_air_quality_impact"})
    ELSE IF req.analysis_type = "comprehensive"
    THEN Route_environmental_response(req,
             Env_comprehensive_analysis(req.coordinates, req.time_horizon, lk),
             {"comprehensive_analysis"})
    ELSE HTTPException(400, "Invalid analysis type", {})

analyze_environmental_impact(req, lk) ==
    Route_except("Analysis failed", Route_environmental_impact_try(req, lk))

\* the try block of the route comprehensive_uhi_analysis
Route_comprehensive_uhi_try(req, lk) ==
    IF ~ValidPolygon(req.coordinates)
    THEN HTTPException(400, "Invalid coordinates provided", {})
    ELSE IF ~validate_area_bounds(req.coordinates)
    THEN HTTPException(400, "Analysis area too large. Maximum 100 km2 allowed", {})
    ELSE [status |-> "completed",
          results |-> Uhi_comprehensive_uhi_analysis(req.coordinates,
                          req.time_horizon, EmptyDict, lk),
          metadata |-> [coordinates |-> req.coordinates,
                        time_horizon |-> req.time_horizon],
          invoked |-> {"comprehensive_uhi_analysis"}]

Route_comprehensive_uhi_analysis(req, lk) ==
    Route_except("UHI analysis failed", Route_comprehensive_uhi_try(req, lk))

(***************************************************************************)
(* SpecRoutes: one request to a route, or one direct call of               *)
(* generate_recommendations on some of the domain results of the polygon   *)
(***************************************************************************)
\* the polygons of SpecUHI, a triangle of 111.5 km2 and a triangle with a
\* vertex at latitude 90.01
OversizedTriangle == <<<<0, 0>>, <<1, 0>>, <<60, 180>>>>

PolarTriangle == <<<<0, 9000>>, <<1, 9000>>, <<1, 9001>>>>

RoutePolygons == UhiPolygons \cup {OversizedTriangle, PolarTriangle}

\* the enum of the request model is documentation, any string is accepted
RouteAnalysisTypes == AnalysisTypes \cup {"other"}

RouteHorizons == {10, MaxHorizon}

InitRoutes ==
    /\ request \in [coordinates : RoutePolygons,
                    analysis_type : RouteAnalysisTypes,
                    time_horizon : RouteHorizons,
                    include_recommendations : BOOLEAN]
    /\ lake = None
    /\ pc = "idle"
    /\ response = None

AnalyzeEnvironmentalImpact ==
    /\ pc = "idle"
    /\ \E lk \in LakeStates :
          /\ lake' = lk
          /\ response' = [op |-> "analyze_environmental_impact",
                          out |-> analyze_environmental_impact(request, lk)]
    /\ pc' = "done"
    /\ UNCHANGED request

ComprehensiveUhiRoute ==
    /\ pc = "idle"
    /\ \E lk \in LakeStates :
          /\ lake' = lk
          /\ response' = [op |-> "route_comprehensive_uhi_analysis",
                          out |-> Route_comprehensive_uhi_analysis(request, lk)]
    /\ pc' = "done"
    /\ UNCHANGED request

\* the domain results of the request's polygon and horizon
DomainResults(d, req) ==
    CASE d = "heat_island" ->
            Heat_analyze_heat_island_effect(req.coordinates, req.time_horizon)
      [] d = "water_absorption" ->
            Water_analyze_water_absorption(req.coordinates, req.time_horizon)
      [] d = "air_quality" ->
            Air_analyze_air_quality_impact(req.coordinates, req.time_horizon)

\* generate_recommendations(analysis_results, analysis_type) on the results
\* of the domains in present
GenerateRecommendationsOf ==
    /\ pc = "idle"
    /\ \E present \in SUBSET Domains :
          LET analysis_results == [d \in present |-> DomainResults(d, request)]
          IN  response' = [op |-> "generate_recommendations",
                           out |-> [status |-> "ok",
                                    analysis_results |-> analysis_results,
                                    recommendations |->
                                        Env_generate_recommendations(
                                            analysis_results,
                                            request.analysis_type)]]
    /\ pc' = "done"
    /\ UNCHANGED <<request, lake>>

NextRoutes ==
    \/ AnalyzeEnvironmentalImpact
    \/ ComprehensiveUhiRoute
    \/ GenerateRecommendationsOf

SpecRoutes == InitRoutes /\ [][NextRoutes]_vars

(***************************************************************************)
(* Claims on the routes (SpecRoutes)                                       *)
(***************************************************************************)
\* the records the thresholds select for the computed score of a domain
C27_Selected(d, results) ==
    CASE d = "heat_island" -> Env_generate_heat_island_recommendations(results)
      [] d = "water_absorption" ->
            Env_generate_water_absorption_recommendations(results)
      [] d = "air_quality" -> Env_generate_air_quality_recommendations(results)

C27_NoRecordForAbsentDomain ==
    Returned("generate_recommendations") =>
        \A d \in Domains \ DOMAIN response.out.analysis_results :
            \A i \in DOMAIN response.out.recommendations :
                response.out.recommendations[i].title \notin C8_Titles[d]

C27_SingleDomainFollowsComputedScore ==
    (/\ Returned("analyze_environmental_impact")
     /\ response.out.status = "completed"
     /\ request.analysis_type \in Domains
     /\ request.include_recommendations)
    => response.out.recommendations
           = <<C27_Selected(request.analysis_type, response.out.results)>>

\* C27: generate_recommendations emits no record for a domain whose result
\* is absent from the results, and the environmental-impact operation with
\* a single-domain analysis type returns the recommendations the thresholds
\* select for that domain's computed risk score
C27_RecommendationsFollowResults ==
    /\ C27_NoRecordForAbsentDomain
    /\ C27_SingleDomainFollowsComputedScore

\* the unit square at horizon 10, heat_island: the computed score is 0.021,
\* the thresholds select nothing, the response carries the medium record
C27_MediumRecordForLowScore ==
    /\ Returned("analyze_environmental_impact")
    /\ request = [coordinates |-> UnitSquare, analysis_type |-> "heat_island",
                  time_horizon |-> 10, include_recommendations |-> TRUE]
    /\ response.out.status = "completed"
    /\ response.out.results.heat_risk_score = 21
    /\ Len(response.out.recommendations[1]) = 1
    /\ response.out.recommendations[1][1].title = "Use Reflective Materials"

\* a direct call with empty results and type comprehensive: three records
C27_RecordsForAbsentDomains ==
    /\ Returned("generate_recommendations")
    /\ request.analysis_type = "comprehensive"
    /\ DOMAIN response.out.analysis_results = {}
    /\ Len(response.out.recommendations) = 3

\* C28: in the environmental-impact and the UHI comprehensive-analysis
\* operations a request that fails validate_coordinates, or whose area is
\* above 100 km2, is rejected with the status-400 error raised for it
\* ("Invalid coordinates provided" / "Analysis area too large"), which
\* reaches the caller unchanged, and no predictor or analyzer is invoked
C28_ValidationErrorReachesCaller ==
    (/\ pc = "done"
     /\ response.op \in {"analyze_environmental_impact",
                         "route_comprehensive_uhi_analysis"}
     /\ \/ ~ValidPolygon(request.coordinates)
        \/ ~validate_area_bounds(request.coordinates))
    => /\ Raised(response.out)
       /\ response.out.status_code = 400
       /\ response.out.detail
              = IF ~ValidPolygon(request.coordinates)
                THEN "Invalid coordinates provided"
                ELSE "Analysis area too large. Maximum 100 km2 allowed"
       /\ response.out.invoked = {}

\* the part that holds: validation precedes analysis, a rejected request
\* ends in an error and invokes nothing
C28_RejectedBeforeAnalysis ==
    (/\ pc = "done"
     /\ response.op \in {"analyze_environmental_impact",
                         "route_comprehensive_uhi_analysis"}
     /\ \/ ~ValidPolygon(request.coordinates)
        \/ ~validate_area_bounds(request.coordinates))
    => /\ Raised(response.out)
       /\ response.out.invoked = {}
       /\ response.out.cause.status_code = 400

\* the oversized triangle: the caller receives status 500 wrapping the 400
C28_OversizedAnsweredWith500 ==
    /\ Returned("route_comprehensive_uhi_analysis")
    /\ request.coordinates = OversizedTriangle
    /\ response.out.status_code = 500
    /\ response.out.detail = "UHI analysis failed"
    /\ response.out.cause.status_code = 400
    /\ response.out.cause.detail = "Analysis area too large. Maximum 100 km2 allowed"

(***************************************************************************)
(* The API routes POST /predict and GET /models                            *)
(***************************************************************************)
\* the model types the request model documents
PredictionModelTypes ==
    {"heat_island", "water_absorption", "air_quality", "comprehensive"}

\* the names in the listing of get_available_models
AvailableModels ==
    <<"heat_island", "water_absorption", "air_quality", "comprehensive">>

get_available_models == [status |-> "ok", models |-> AvailableModels]

\* the response built from the result of a predict call
Route_prediction_response(req, predictions) ==
    IF Raised(predictions)
    THEN [status |-> "raised", error |-> predictions.error,
          raised_by |-> predictions.raised_by, invoked |-> {predictions.raised_by}]
    ELSE [status |-> "ok",
          model_type |-> req.model_type,
          predictions |-> predictions.predictions,
          confidence_intervals |-> predictions.confidence_intervals,
          model_metadata |-> predictions.metadata]

\* the try block of make_prediction: there are branches for heat_island,
\* water_absorption and comprehensive
Route_make_prediction_try(req) ==
    IF req.model_type = "heat_island"
    THEN Route_prediction_response(req,
             Heat_predict(req.input_data, req.prediction_horizon,
                          req.confidence_level))
    ELSE IF req.model_type = "water_absorption"
    THEN Route_prediction_response(req,
             Water_predict(req.input_data, req.prediction_horizon,
                           req.confidence_level))
    ELSE IF req.model_type = "comprehensive"
    THEN Route_prediction_response(req,
             Env_comprehensive_prediction(req.input_data, req.prediction_horizon,
                                          req.confidence_level))
    ELSE HTTPException(400, "Invalid model type specified", {})

make_prediction(req) ==
    Route_except("Prediction failed", Route_make_prediction_try(req))

(***************************************************************************)
(* SpecPredictRoute: one request to POST /predict or GET /models           *)
(***************************************************************************)
\* the enum of the request model is documentation, any string is accepted;
\* prediction_horizon and confidence_level are bounded by the model
RouteModelTypes == PredictionModelTypes \cup {"other"}

RouteConfidenceLevels == {50, 95, 99}

InitPredictRoute ==
    /\ request \in [model_type : RouteModelTypes,
                    input_data : FeatureBags,
                    prediction_horizon : PredictHorizons,
                    confidence_level : RouteConfidenceLevels]
    /\ lake = None
    /\ pc = "idle"
    /\ response = None

MakePrediction ==
    /\ pc = "idle"
    /\ response' = [op |-> "make_prediction", out |-> make_prediction(request)]
    /\ pc' = "done"
    /\ UNCHANGED <<request, lake>>

GetAvailableModels ==
    /\ pc = "idle"
    /\ response' = [op |-> "get_available_models", out |-> get_available_models]
    /\ pc' = "done"
    /\ UNCHANGED <<request, lake>>

NextPredictRoute ==
    \/ MakePrediction
    \/ GetAvailableModels

SpecPredictRoute == InitPredictRoute /\ [][NextPredictRoute]_vars

(***************************************************************************)
(* Claims on the prediction route (SpecPredictRoute)                       *)
(***************************************************************************)
C29_Advertised ==
    {AvailableModels[i] : i \in DOMAIN AvailableModels} \cap PredictionModelTypes

\* C29: every model type the request accepts and the listing advertises
\* (heat_island, water_absorption, air_quality, comprehensive) is served by
\* make_prediction; none of them ends in "Invalid model type specified"
C29_AdvertisedModelTypesServed ==
    Returned("make_prediction") /\ request.model_type \in C29_Advertised =>
        /\ ~Raised(response.out)
        /\ response.out.model_type = request.model_type

\* the listing names the four types
C29_ListingAdvertisesFour ==
    Returned("get_available_models") =>
        {response.out.models[i] : i \in DOMAIN response.out.models}
            = PredictionModelTypes

\* the other three advertised types are served
C29_OtherTypesServed ==
    Returned("make_prediction")
    /\ request.model_type \in C29_Advertised \ {"air_quality"} =>
        /\ ~Raised(response.out)
        /\ response.out.model_type = request.model_type

\* a request for air_quality is answered with status 500 wrapping the 400
\* "Invalid model type specified"; no predictor is invoked
C29_AirQualityRejected ==
    /\ Returned("make_prediction")
    /\ request.model_type = "air_quality"
    /\ request.input_data = EmptyDict
    /\ Raised(response.out)
    /\ response.out.status_code = 500
    /\ response.out.cause.status_code = 400
    /\ response.out.cause.detail = "Invalid model type specified"
    /\ response.out.invoked = {}

(***************************************************************************)
(* Claims on the frame of the budget filter (SpecUHI)                      *)
(***************************************************************************)
C30_Catalog == {"green_roofs", "urban_forests", "cool_pavements", "water_features"}

\* C30: in the mitigation-analysis operation the budget filter changes the
\* returned mitigation_analysis only; the returned baseline_analysis is the
\* analysis of the polygon, with the catalog of all four strategies in its
\* mitigation_potential, for every budget ceiling
C30_BaselineUnchangedByBudget ==
    Returned("uhi_mitigation_analysis") /\ response.out.status = "completed" =>
        /\ response.out.baseline_analysis
               = Uhi_comprehensive_uhi_analysis(request.coordinates, 10,
                                                EmptyDict, lake)
        /\ DOMAIN response.out.baseline_analysis.mitigation_potential
                      .mitigation_strategies = C30_Catalog

\* without a budget the baseline is the analysis of the polygon
C30_BaselineIsAnalysisWithoutBudget ==
    (/\ Returned("uhi_mitigation_analysis")
     /\ response.out.status = "completed"
     /\ request.budget_constraint \in {<<>>, <<0>>})
    => response.out.baseline_analysis
           = Uhi_comprehensive_uhi_analysis(request.coordinates, 10,
                                            EmptyDict, lake)

\* the unit square with a ceiling of 40000 USD: the baseline returned holds
\* the one affordable strategy, as the mitigation_analysis does
C30_BaselineFiltered ==
    /\ Returned("uhi_mitigation_analysis")
    /\ request.coordinates = UnitSquare
    /\ request.budget_constraint = <<40000>>
    /\ response.out.status = "completed"
    /\ DOMAIN response.out.mitigation_analysis.mitigation_strategies
           = {"urban_forests"}
    /\ DOMAIN response.out.baseline_analysis.mitigation_potential
                  .mitigation_strategies = {"urban_forests"}

=============================================================================
